---------------------------- MODULE Spec2Model ----------------------------
(***************************************************************************)
(* Incremental vector-index synchronisation (ingestion/vector_db_sync.py). *)
(*                                                                         *)
(* A run is main_entry (argument validation, change-set resolution)        *)
(* followed by run_sync (client set-up, optional namespace wipe, one loop  *)
(* iteration per change record, summary and exit).  The vector store, the  *)
(* embedding service, the chunker, git and the working tree are the        *)
(* environment: their answers are inputs of the actions.                   *)
(*                                                                         *)
(* Strings that the program parses (diff lines, --files tokens, statuses,  *)
(* paths) are sequences of one-character strings, so that split, strip,    *)
(* upper and startswith are computed and not assumed.                      *)
(***************************************************************************)
EXTENDS Integers, Sequences, FiniteSets, TLC

(***************************************************************************)
(* Program constants.                                                      *)
(***************************************************************************)
MAX_TOKENS == 8192
DIMENSION == 1024
BATCH_SIZE == 10

(***************************************************************************)
(* Bounds of the model.                                                    *)
(***************************************************************************)
\* runs (invocations of main_entry) per behaviour
MaxRuns == 2
\* input lines / tokens per invocation
MaxLines == 2
\* edits of the environment (working tree, errors file) between runs
MaxEdits == 1
\* records resolved, over all the runs of a behaviour
MaxRecords == 3

(***************************************************************************)
(* Strings.                                                                *)
(***************************************************************************)
TAB == "\t"
SP == " "

IsSpace(ch) == ch \in {TAB, SP}

RECURSIVE LStrip(_)
LStrip(s) == IF s # << >> /\ IsSpace(Head(s)) THEN LStrip(Tail(s)) ELSE s

RECURSIVE RStrip(_)
RStrip(s) ==
    IF s # << >> /\ IsSpace(s[Len(s)]) THEN RStrip(SubSeq(s, 1, Len(s) - 1)) ELSE s

\* str.strip()
Strip(s) == RStrip(LStrip(s))

\* str.split(sep) with an explicit one-character separator
RECURSIVE SplitOn(_, _)
SplitOn(s, sep) ==
    IF s = << >> THEN << << >> >>
    ELSE LET r == SplitOn(Tail(s), sep)
         IN  IF Head(s) = sep THEN << << >> >> \o r
             ELSE << <<Head(s)>> \o r[1] >> \o Tail(r)

\* the longest prefix of s without whitespace
RECURSIVE TakeWord(_)
TakeWord(s) ==
    IF s = << >> \/ IsSpace(Head(s)) THEN << >> ELSE <<Head(s)>> \o TakeWord(Tail(s))

\* str.split(None, maxsplit): split on runs of whitespace, at most maxsplit times
RECURSIVE SplitWs(_, _)
SplitWs(s, maxsplit) ==
    LET t == LStrip(s)
    IN  IF t = << >> THEN << >>
        ELSE IF maxsplit = 0 THEN <<t>>
        ELSE LET w == TakeWord(t)
             IN  <<w>> \o SplitWs(SubSeq(t, Len(w) + 1, Len(t)), maxsplit - 1)

\* str.split(sep, 1)
SplitOnce(s, sep) ==
    LET hits == {i \in 1..Len(s) : s[i] = sep}
    IN  IF hits = {} THEN <<s>>
        ELSE LET i == CHOOSE k \in hits : \A j \in hits : k <= j
             IN  <<SubSeq(s, 1, i - 1), SubSeq(s, i + 1, Len(s))>>

UpperChar(ch) ==
    CASE ch = "a" -> "A" [] ch = "b" -> "B" [] ch = "d" -> "D" [] ch = "m" -> "M"
      [] ch = "r" -> "R" [] ch = "t" -> "T" [] ch = "x" -> "X"
      [] OTHER -> ch

\* str.upper()
Upper(s) == [i \in 1..Len(s) |-> UpperChar(s[i])]

\* str.startswith(ch) for a one-character prefix
StartsWith(s, ch) == s # << >> /\ s[1] = ch

\* a prefixing that drops the directory
JoinPathBare(dir, f) == f

\* path prefixing: f"{sub_path}/{f}"
JoinPath(dir, f) == dir \o <<"/">> \o f

(***************************************************************************)
(* The working tree.  A path is absent, a directory, or a file whose       *)
(* content is one of a few kinds; what the chunking stage makes of each    *)
(* kind is dispatch_chunking's answer.  The chunking service raises on an   *)
(* "unparsed" file and returns no chunk for a "nochunks" file.             *)
(***************************************************************************)
DiskPaths == { <<"a">>, <<"b">> }
FileKinds == {"small", "multi", "huge", "csv", "unparsed", "nochunks"}
DiskStates == {"absent", "dir"} \cup FileKinds

NChunks(kind) ==
    CASE kind = "small" -> 1 [] kind = "multi" -> BATCH_SIZE + 1
      [] kind = "huge" -> 2 [] kind = "csv" -> 2
      [] kind = "unparsed" -> 1 [] kind = "nochunks" -> 1 [] OTHER -> 0

\* count_tokens of chunk i of a file of this kind: the second chunk of a "huge"
\* file and of a "csv" preview stays above the embedding limit after re-chunking
count_tokens(kind, i) ==
    IF kind \in {"huge", "csv"} /\ i = 2 THEN MAX_TOKENS + 1 ELSE 5

Numerals == <<"1", "2", "3", "4", "5", "6", "7", "8", "9", "10", "11">>

\* a chunk is its text, here the file kind followed by the chunk's position
ChunksOf(kind) == [i \in 1..NChunks(kind) |-> <<kind, Numerals[i]>>]

\* chunker.chunk_file: the chunking service's answer for a file
chunk_file(kind) ==
    [raises |-> kind = "unparsed",
     chunks |-> IF kind \in {"small", "multi", "huge"} THEN ChunksOf(kind) ELSE << >>]

\* chunk_as_summary: name, size and type of the file, re-chunked: one chunk
chunk_as_summary(kind) == ChunksOf(kind)

\* chunk_csv_tsv: the preview of the first lines, re-chunked
chunk_csv_tsv(kind) == ChunksOf(kind)

\* a dispatcher that has nothing to fall back to
dispatch_without_fallback(kind) ==
    IF kind = "csv"
    THEN [chunks |-> chunk_csv_tsv(kind), should_embed |-> TRUE, chunk_type |-> "summary"]
    ELSE [chunks |-> chunk_file(kind).chunks, should_embed |-> TRUE, chunk_type |-> "content"]

\* dispatch_chunking: (chunks, should_embed, chunk_type).  Lines 258-260: the
\* preview of a csv file; lines 266-273: the chunking service's chunks if it
\* answers with any; lines 275-277: otherwise the summary of the file
dispatch_chunking(kind) ==
    IF kind = "csv"
    THEN [chunks |-> chunk_csv_tsv(kind), should_embed |-> TRUE, chunk_type |-> "summary"]
    ELSE IF ~chunk_file(kind).raises /\ chunk_file(kind).chunks # << >>
    THEN [chunks |-> chunk_file(kind).chunks, should_embed |-> TRUE, chunk_type |-> "content"]
    ELSE [chunks |-> chunk_as_summary(kind), should_embed |-> TRUE, chunk_type |-> "summary"]


(***************************************************************************)
(* The embedding gateway.  The service's answer to one call is an input:   *)
(* it raises, or returns a list of `len` floats, all finite or not.        *)
(***************************************************************************)
GoodAnswer == [raises |-> FALSE, len |-> DIMENSION, finite |-> TRUE]
BadAnswers ==
    { [raises |-> TRUE, len |-> 0, finite |-> TRUE],
      [raises |-> FALSE, len |-> 0, finite |-> TRUE],
      [raises |-> FALSE, len |-> DIMENSION - 1, finite |-> TRUE],
      [raises |-> FALSE, len |-> DIMENSION, finite |-> FALSE] }
EmbedAnswers == {GoodAnswer} \cup BadAnswers

\* a gateway that hands on whatever the service returns
get_embedding_unchecked(text, ans) ==
    [raised |-> ans.raises, called |-> TRUE, values |-> IF ans.raises THEN 0 ELSE ans.len]

\* get_embedding: the vector's length when accepted; every rejection raises.
\* `not text or not text.strip()` is tested before the service is called.
get_embedding(text, ans) ==
    IF text = << >> \/ Strip(text) = << >>
    THEN [raised |-> TRUE, called |-> FALSE, values |-> 0]
    ELSE IF ans.raises \/ ans.len = 0 \/ ans.len # DIMENSION \/ ~ans.finite
         THEN [raised |-> TRUE, called |-> TRUE, values |-> 0]
         ELSE [raised |-> FALSE, called |-> TRUE, values |-> ans.len]

(***************************************************************************)
(* State.                                                                  *)
(***************************************************************************)
VARIABLES
    disk,              \* working tree: path -> absent, dir or a file kind
    index,             \* the vector store's namespace: a set of vector records
    journal,           \* lines of the errors file (errors_out), oldest first
    writable,          \* whether the errors file can be written
    uuid,              \* per path, the number of ids drawn from uuid4 so far
    pc,                \* "idle" between runs, "loop" inside run_sync's loop
    args,              \* the invocation being served by main_entry / run_sync
    files_to_process,  \* the records of the run
    pos,               \* position of the next record in files_to_process
    file_stats,        \* run_sync's tallies: processed, errors, skipped
    failures,          \* run_sync's list of failure dicts
    deleted_files,     \* run_sync's count of filtered deletes issued
    upserted_ids,      \* ids of the batches upserted in this run
    total_upserted,    \* number of chunks upserted in this run
    exit,              \* how the last invocation ended
    calls,             \* external calls issued by the last step, in order
    states,            \* per record of the run: its terminal state, its failures
    last_indexing,     \* per path: the ids drawn by the last indexing that got
                       \* past its pre-delete, and whether it recorded no failure
    intent,            \* per path: the operation of the last record for it that
                       \* a change set gave (a replay of the journal gives none)
    probe,             \* a direct call of get_embedding: text, answer, result
    budget,            \* a direct call of re_chunk_if_oversize: sections, limit,
                       \* and the chunks returned
    nruns,             \* invocations so far
    nrecs,             \* records resolved so far, over all runs
    nedits             \* edits of the environment so far

vars == <<disk, index, journal, writable, uuid, pc, args, files_to_process, pos, file_stats,
          failures, deleted_files, upserted_ids, total_upserted, exit, calls,
          states, last_indexing, intent, probe, budget, nruns, nrecs, nedits>>

PA == <<"a">>
PB == <<"b">>

NoGit == [ok |-> TRUE, super_out |-> << >>, sub_out |-> << >>, subs |-> << >>]
NoTree == [ok |-> TRUE, super_out |-> << >>, subs |-> << >>]
ReadySetup ==
    [sdk |-> "serverless", list_ok |-> TRUE, index_exists |-> TRUE, create_ok |-> TRUE]

\* an invocation: the command line, the credentials, and what the environment
\* answers to the resolver and to run_sync's set-up
BaseInv ==
    [pinecone_key |-> TRUE, voyage_key |-> TRUE, skip_on_missing_keys |-> FALSE,
     reindex_all |-> FALSE, files |-> << >>, retry_errors |-> FALSE,
     from_commit |-> FALSE, changed_files |-> FALSE, listing |-> << >>,
     github |-> FALSE, git |-> NoGit, tree |-> NoTree, repo_name |-> "r1",
     setup |-> ReadySetup, wipe |-> "ok", wipe_first |-> FALSE]

\* no invocation is being served
NoArgs == BaseInv

\* re_chunk_if_oversize has not been called directly
NoBudget == [done |-> FALSE, sections |-> << >>, max_tokens |-> MAX_TOKENS, chunks |-> << >>]

\* get_embedding has not been called directly
NoProbe ==
    [done |-> FALSE, text |-> << >>, ans |-> GoodAnswer,
     result |-> [raised |-> FALSE, called |-> FALSE, values |-> 0]]

Exists(fp) == fp \in DiskPaths /\ disk[fp] # "absent"
IsDir(fp) == fp \in DiskPaths /\ disk[fp] = "dir"

\* the vectors the store holds for a path under a repo tag
VectorsOf(idx, repo, fp) == {v \in idx : v.repo_name = repo /\ v.file_path = fp}

(***************************************************************************)
(* The store gateway.                                                      *)
(***************************************************************************)
DeleteAnswers == {"ok", "namespace not found", "error"}

\* a gateway whose delete reaches no vector
delete_nothing(idx, fp, repo, ans) ==
    [raised |-> ans = "error", index |-> idx, calls |-> << <<"delete", repo, fp, ans>> >>]

\* a gateway whose delete is filtered by the repo tag alone
delete_by_repo(idx, fp, repo, ans) ==
    [raised |-> ans = "error",
     index |-> IF ans = "ok" THEN {v \in idx : v.repo_name # repo} ELSE idx,
     calls |-> << <<"delete", repo, fp, ans>> >>]

\* a gateway whose delete is filtered by the path alone
delete_by_path(idx, fp, repo, ans) ==
    [raised |-> ans = "error",
     index |-> IF ans = "ok" THEN {v \in idx : v.file_path # fp} ELSE idx,
     calls |-> << <<"delete", repo, fp, ans>> >>]

\* a gateway that swallows whatever the store raises
delete_lenient(idx, fp, repo, ans) ==
    [raised |-> FALSE,
     index |-> IF ans = "ok" THEN idx \ VectorsOf(idx, repo, fp) ELSE idx,
     calls |-> << <<"delete", repo, fp, ans>> >>]

\* a gateway that re-raises whatever the store raises
delete_strict(idx, fp, repo, ans) ==
    [raised |-> ans # "ok",
     index |-> IF ans = "ok" THEN idx \ VectorsOf(idx, repo, fp) ELSE idx,
     calls |-> << <<"delete", repo, fp, ans>> >>]

\* safe_delete_vectors: filtered delete by (repo_name, file_path); an answer of
\* "namespace not found" is swallowed, any other exception is re-raised.  The
\* call is recorded with the store's answer to it.
safe_delete_vectors(idx, fp, repo, ans) ==
    [raised |-> ans = "error",
     index |-> IF ans = "ok" THEN idx \ VectorsOf(idx, repo, fp) ELSE idx,
     calls |-> << <<"delete", repo, fp, ans>> >>]

EmptyContent(batch) ==
    \E k \in 1..Len(batch) : batch[k].chunk_type = "content" /\ batch[k].values = 0

\* a gateway that upserts without validating the batch
upsert_unvalidated(idx, batch, ans) ==
    IF ans = "error"
    THEN [raised |-> TRUE, message |-> "upsert", index |-> idx,
          count |-> 0, calls |-> << <<"upsert", Len(batch)>> >>]
    ELSE [raised |-> FALSE, message |-> "", count |-> Len(batch),
          index |-> idx \cup {batch[k] : k \in 1..Len(batch)},
          calls |-> << <<"upsert", Len(batch)>> >>]

\* a gateway that refuses every chunk without a vector, whatever its kind
upsert_embedded_only(idx, batch, ans) ==
    IF \E k \in 1..Len(batch) : batch[k].values = 0
    THEN [raised |-> TRUE, message |-> "empty embedding", index |-> idx,
          count |-> 0, calls |-> << >>]
    ELSE IF ans = "error"
    THEN [raised |-> TRUE, message |-> "upsert", index |-> idx,
          count |-> 0, calls |-> << <<"upsert", Len(batch)>> >>]
    ELSE [raised |-> FALSE, message |-> "", count |-> Len(batch),
          index |-> idx \cup {batch[k] : k \in 1..Len(batch)},
          calls |-> << <<"upsert", Len(batch)>> >>]

\* safe_upsert_batch: validation first, then index.upsert
safe_upsert_batch(idx, batch, ans) ==
    IF EmptyContent(batch)
    THEN [raised |-> TRUE, message |-> "empty embedding", index |-> idx,
          count |-> 0, calls |-> << >>]
    ELSE IF ans = "error"
    THEN [raised |-> TRUE, message |-> "upsert", index |-> idx,
          count |-> 0, calls |-> << <<"upsert", Len(batch)>> >>]
    ELSE [raised |-> FALSE, message |-> "", count |-> Len(batch),
          index |-> idx \cup {batch[k] : k \in 1..Len(batch)},
          calls |-> << <<"upsert", Len(batch)>> >>]

(***************************************************************************)
(* process_file.  failAt is the position of the first chunk whose          *)
(* embedding call is answered by bad (0: every call is answered well);     *)
(* later chunks are never reached.                                         *)
(***************************************************************************)
ShouldCall(d, kind, i) == d.should_embed /\ count_tokens(kind, i) <= MAX_TOKENS

\* a process_file that asks once more for an embedding that was refused
process_file_retrying(fp, status, repo, failAt, bad, first_id) ==
    LET kind == disk[fp]
        d == dispatch_chunking(kind)
        asked == {i \in 1..Len(d.chunks) : ShouldCall(d, kind, i)}
        upto == {i \in asked : failAt = 0 \/ i <= failAt}
        once == [k \in 1..Cardinality(upto) |->
                   LET i == CHOOSE c \in upto : Cardinality({j \in upto : j < c}) = k - 1
                   IN  <<"embed", d.chunks[i], IF i = failAt THEN bad ELSE GoodAnswer>>]
    IN  [raised |-> failAt \in asked,
         entries |-> IF failAt \in asked THEN << >>
                     ELSE [i \in 1..Len(d.chunks) |->
                             [id |-> <<fp, first_id + i>>,
                              values |-> IF i \in asked THEN DIMENSION ELSE 0,
                              repo_name |-> repo, file_path |-> fp,
                              chunk_type |-> d.chunk_type, chunk_index |-> i - 1,
                              content |-> d.chunks[i], embedded |-> i \in asked,
                              should_embed |-> d.should_embed, status |-> status]],
         calls |-> IF failAt \in asked THEN once \o <<once[Len(once)]>> ELSE once]

\* a process_file that returns the chunks it embedded before the one refused
process_file_partial(fp, status, repo, failAt, bad, first_id) ==
    LET kind == disk[fp]
        d == dispatch_chunking(kind)
        n == Len(d.chunks)
        emb(i) == IF ShouldCall(d, kind, i)
                  THEN get_embedding(d.chunks[i], IF i = failAt THEN bad ELSE GoodAnswer)
                  ELSE [raised |-> FALSE, called |-> FALSE, values |-> 0]
        stops == {i \in 1..n : emb(i).raised}
        last == IF stops = {} THEN n ELSE CHOOSE i \in stops : \A j \in stops : i <= j
        kept == IF stops = {} THEN n ELSE last - 1
        embeds == {i \in 1..last : emb(i).called}
    IN  [raised |-> FALSE,
         entries |-> [i \in 1..kept |->
                        [id |-> <<fp, first_id + i>>, values |-> emb(i).values,
                         repo_name |-> repo, file_path |-> fp,
                         chunk_type |-> d.chunk_type, chunk_index |-> i - 1,
                         content |-> d.chunks[i], embedded |-> emb(i).values # 0,
                         should_embed |-> d.should_embed, status |-> status]],
         calls |-> [k \in 1..Cardinality(embeds) |->
                      LET i == CHOOSE c \in embeds :
                                 Cardinality({j \in embeds : j < c}) = k - 1
                      IN  <<"embed", d.chunks[i], IF i = failAt THEN bad ELSE GoodAnswer>>]]

process_file(fp, status, repo, failAt, bad, first_id) ==
    LET kind == disk[fp]
        d == dispatch_chunking(kind)
        n == Len(d.chunks)
        emb(i) == IF ShouldCall(d, kind, i)
                  THEN get_embedding(d.chunks[i], IF i = failAt THEN bad ELSE GoodAnswer)
                  ELSE [raised |-> FALSE, called |-> FALSE, values |-> 0]
        stops == {i \in 1..n : emb(i).raised}
        last == IF stops = {} THEN n ELSE CHOOSE i \in stops : \A j \in stops : i <= j
        entry(i) == [id |-> <<fp, first_id + i>>,
                     values |-> emb(i).values,
                     repo_name |-> repo,
                     file_path |-> fp,
                     chunk_type |-> d.chunk_type,
                     chunk_index |-> i - 1,
                     content |-> d.chunks[i],
                     embedded |-> emb(i).values # 0,
                     should_embed |-> d.should_embed,
                     status |-> status]
        embeds == {i \in 1..last : emb(i).called}
    IN  [raised |-> stops # {},
         entries |-> IF stops # {} THEN << >> ELSE [i \in 1..n |-> entry(i)],
         calls |-> [k \in 1..Cardinality(embeds) |->
                      LET i == CHOOSE c \in embeds :
                                 Cardinality({j \in embeds : j < c}) = k - 1
                      IN  <<"embed", d.chunks[i], IF i = failAt THEN bad ELSE GoodAnswer>>]]

(***************************************************************************)
(* The error journal.                                                      *)
(***************************************************************************)
ErrorRecord(fp, operation, message, status) ==
    [file_path |-> fp, operation |-> operation, message |-> message, status |-> status]

\* a journal that is never written
append_nothing(lines, fp, operation, message, status, written) == lines

\* a journal that is opened for writing, not for appending
append_rewriting(lines, fp, operation, message, status, written) ==
    IF written THEN << ErrorRecord(fp, operation, message, status) >> ELSE lines

\* append_error: one line appended; a failure to write is swallowed
append_error(lines, fp, operation, message, status, written) ==
    IF written THEN Append(lines, ErrorRecord(fp, operation, message, status)) ELSE lines

(***************************************************************************)
(* run_sync, one iteration of the loop over files_to_process.              *)
(*   del     the store's answer to the filtered delete                     *)
(*   failAt  first chunk whose embedding call is answered by bad (0: none) *)
(*   up      the store's answer to each batch upsert                       *)
(*   written whether a write of the journal succeeds                       *)
(* The result holds the new store and journal, the increments of the       *)
(* tallies, the failures and ids to append, the calls issued and the       *)
(* terminal state of the record.                                           *)
(***************************************************************************)
NBatches(n) == (n + BATCH_SIZE - 1) \div BATCH_SIZE

Batch(entries, b) ==
    SubSeq(entries, (b - 1) * BATCH_SIZE + 1,
           IF b * BATCH_SIZE < Len(entries) THEN b * BATCH_SIZE ELSE Len(entries))

Unchanged(idx, lines) ==
    [index |-> idx, journal |-> lines, drawn |-> 0, processed |-> 0, errors |-> 0,
     skipped |-> 0, failures |-> << >>, deleted |-> 0, ids |-> << >>, total |-> 0,
     calls |-> << >>, state |-> "Pending"]

\* a handler that journals the failure and forgets to count it
CaughtUncounted(acc, fp, status, message, written) ==
    [acc EXCEPT !.failures = Append(@, ErrorRecord(fp, "process", message, status)),
                !.journal = append_error(@, fp, "process", message, status, written),
                !.calls = @ \o << <<"append_error", fp, "process">> >>,
                !.state = "Failed"]

\* the handler of the loop's outer `except Exception`
Caught(acc, fp, status, message, written) ==
    [acc EXCEPT !.errors = @ + 1,
                !.failures = Append(@, ErrorRecord(fp, "process", message, status)),
                !.journal = append_error(@, fp, "process", message, status, written),
                !.calls = @ \o << <<"append_error", fp, "process">> >>,
                !.state = "Failed"]

\* a loop over the batches that gives up the file at the first batch refused
RECURSIVE UpsertBatchesStopping(_, _, _, _, _, _, _)
UpsertBatchesStopping(acc, entries, b, fp, status, up, written) ==
    IF b > NBatches(Len(entries)) THEN acc
    ELSE LET batch == Batch(entries, b)
             r == safe_upsert_batch(acc.index, batch, up[b])
         IN  IF r.raised
             THEN [acc EXCEPT
                     !.errors = @ + 1,
                     !.failures = Append(@, ErrorRecord(fp, "upsert", r.message, status)),
                     !.journal = append_error(@, fp, "upsert", r.message, status, written),
                     !.calls = @ \o r.calls \o << <<"append_error", fp, "upsert">> >>]
             ELSE UpsertBatchesStopping(
                    [acc EXCEPT
                       !.index = r.index,
                       !.total = @ + r.count,
                       !.ids = @ \o [k \in 1..Len(batch) |-> batch[k].id],
                       !.calls = @ \o r.calls],
                    entries, b + 1, fp, status, up, written)

\* the loop over the batches of one file, from batch b on
RECURSIVE UpsertBatches(_, _, _, _, _, _, _)
UpsertBatches(acc, entries, b, fp, status, up, written) ==
    IF b > NBatches(Len(entries)) THEN acc
    ELSE LET batch == Batch(entries, b)
             r == safe_upsert_batch(acc.index, batch, up[b])
             next ==
               IF r.raised
               THEN [acc EXCEPT
                       !.errors = @ + 1,
                       !.failures = Append(@, ErrorRecord(fp, "upsert", r.message, status)),
                       !.journal = append_error(@, fp, "upsert", r.message, status, written),
                       !.calls = @ \o r.calls \o << <<"append_error", fp, "upsert">> >>]
               ELSE [acc EXCEPT
                       !.index = r.index,
                       !.total = @ + r.count,
                       !.ids = @ \o [k \in 1..Len(batch) |-> batch[k].id],
                       !.calls = @ \o r.calls]
         IN  UpsertBatches(next, entries, b + 1, fp, status, up, written)

\* a loop that never deletes before it indexes
PreDeleteNever(status, wipe_first) == FALSE

\* a loop that deletes before it indexes even after the wipe
PreDeleteAlways(status, wipe_first) == status \in { <<"A">>, <<"M">> }

\* line 923: delete the path's vectors first, outside full-wipe mode
PreDelete(status, wipe_first) == status \in { <<"A">>, <<"M">> } /\ ~wipe_first

\* a loop that takes a directory for a failed record
SkipDirCounted(acc, fp, status, written) ==
    [acc EXCEPT !.errors = 1,
                !.failures = << ErrorRecord(fp, "process", "directory", status) >>,
                !.journal = append_error(@, fp, "process", "directory", status, written),
                !.calls = << <<"append_error", fp, "process">> >>,
                !.state = "Failed"]

\* lines 908-912: the path is a directory; counted as skipped, a skip-dir
\* line journalled, and on to the next record
SkipDir(acc, fp, status, written) ==
    [acc EXCEPT !.skipped = 1,
                !.journal = append_error(@, fp, "skip-dir", "directory", status, written),
                !.calls = << <<"append_error", fp, "skip-dir">> >>,
                !.state = "Skipped"]

\* one iteration of the loop of lines 905-949 on a store and a journal
LoopBodyOn(idx, lines, status, fp, repo, wipe_first, del, failAt, bad, up, written) ==
    LET start == Unchanged(idx, lines)
    IN
    IF IsDir(fp)
    THEN SkipDir(start, fp, status, written)
    ELSE IF status = <<"D">>
    THEN LET r == safe_delete_vectors(idx, fp, repo, del)
             after == [start EXCEPT !.index = r.index, !.calls = r.calls]
         IN  IF r.raised THEN Caught(after, fp, status, "delete", written)
             ELSE [after EXCEPT !.deleted = 1, !.state = "Deleted"]
    ELSE IF ~Exists(fp)
    THEN Caught([start EXCEPT !.skipped = 1], fp, status, "not found", written)
    ELSE LET pre == PreDelete(status, wipe_first)
             r == IF pre THEN safe_delete_vectors(idx, fp, repo, del)
                  ELSE [raised |-> FALSE, index |-> idx, calls |-> << >>]
             cleaned == [start EXCEPT !.index = r.index, !.calls = r.calls]
         IN  IF r.raised THEN Caught(cleaned, fp, status, "delete", written)
             ELSE
             LET p == process_file(fp, status, repo, failAt, bad, uuid[fp])
                 chunked == [cleaned EXCEPT !.deleted = IF pre THEN 1 ELSE 0,
                                            !.calls = @ \o p.calls,
                                            !.drawn = Len(p.entries)]
             IN  IF p.raised THEN Caught(chunked, fp, status, "embedding", written)
                 ELSE [UpsertBatches(chunked, p.entries, 1, fp, status, up, written)
                         EXCEPT !.processed = 1, !.state = "Reindexed"]

\* the iteration on the store and the journal as they are
LoopBody(status, fp, repo, wipe_first, del, failAt, bad, up, written) ==
    LoopBodyOn(index, journal, status, fp, repo, wipe_first, del, failAt, bad, up, written)

MaxBatches == NBatches(BATCH_SIZE + 1)

(***************************************************************************)
(* The answers of the environment to one iteration.  An answer that the    *)
(* iteration never asks for is fixed, so that each choice is a different   *)
(* run of the code.                                                        *)
(***************************************************************************)
Quiet ==
    [del |-> "ok", failAt |-> 0, bad |-> GoodAnswer, up |-> [b \in 1..MaxBatches |-> "ok"]]

\* the store says "namespace not found" only of a namespace that holds nothing
DeleteAnswersNow ==
    IF index = {} THEN DeleteAnswers ELSE DeleteAnswers \ {"namespace not found"}

\* the first and the last chunk of a file that is sent to the embedding service
Ends(asked) == {i \in asked : (\A j \in asked : i <= j) \/ (\A j \in asked : j <= i)}

Answers(status, fp, wipe_first) ==
    IF IsDir(fp) \/ (status # <<"D">> /\ ~Exists(fp))
    THEN {Quiet}
    ELSE IF status = <<"D">>
    THEN {[Quiet EXCEPT !.del = d] : d \in DeleteAnswersNow}
    ELSE LET kind == disk[fp]
             d == dispatch_chunking(kind)
             n == Len(d.chunks)
             dels == IF PreDelete(status, wipe_first)
                     THEN DeleteAnswersNow \ {"error"} ELSE {"ok"}
             asked == {i \in 1..n : ShouldCall(d, kind, i)}
             ups == {u \in [1..MaxBatches -> {"ok", "error"}] :
                       \A b \in 1..MaxBatches : b > NBatches(n) => u[b] = "ok"}
         IN  (IF PreDelete(status, wipe_first) THEN {[Quiet EXCEPT !.del = "error"]} ELSE {})
             \cup {[Quiet EXCEPT !.del = dl, !.failAt = i, !.bad = a] :
                     dl \in dels, i \in Ends(asked), a \in BadAnswers}
             \cup {[Quiet EXCEPT !.del = dl, !.up = u] : dl \in dels, u \in ups}

\* the record got past the directory check, the existence check and its
\* pre-delete: the file was chunked
Indexed(r) ==
    \/ r.state = "Reindexed"
    \/ r.state = "Failed" /\ r.failures[1].message = "embedding"

ProcessRecord ==
    /\ pc = "loop"
    /\ pos <= Len(files_to_process)
    /\ LET status == files_to_process[pos][1]
           fp == files_to_process[pos][2]
       IN  \E e \in Answers(status, fp, args.wipe_first) :
           \E r \in {LoopBody(status, fp, args.repo_name, args.wipe_first,
                              e.del, e.failAt, e.bad, e.up, writable)} :
               /\ index' = r.index
               /\ journal' = r.journal
               /\ uuid' = IF r.drawn = 0 THEN uuid ELSE [uuid EXCEPT ![fp] = @ + r.drawn]
               /\ file_stats' = [processed |-> file_stats.processed + r.processed,
                                 errors |-> file_stats.errors + r.errors,
                                 skipped |-> file_stats.skipped + r.skipped]
               /\ failures' = failures \o r.failures
               /\ deleted_files' = deleted_files + r.deleted
               /\ upserted_ids' = upserted_ids \o r.ids
               /\ total_upserted' = total_upserted + r.total
               /\ calls' = r.calls
               /\ states' = Append(states, [state |-> r.state, errors |-> r.errors])
               /\ last_indexing' =
                    IF Indexed(r)
                    THEN [last_indexing EXCEPT
                            ![fp] = [first |-> uuid[fp], n |-> r.drawn, ok |-> r.errors = 0]]
                    ELSE last_indexing
               /\ intent' =
                    IF args.retry_errors \/ fp \notin DiskPaths THEN intent
                    ELSE [intent EXCEPT ![fp] = status]
               /\ pos' = pos + 1
    /\ UNCHANGED <<disk, writable, pc, args, files_to_process, exit, probe, budget, nruns, nrecs,
                   nedits>>

\* an end of run that reports the failures and returns all the same
ExitQuietly(fails) == "return"

\* run_sync's last statements: SystemExit(1) if any failure was recorded
ExitOf(fails) == IF fails # << >> THEN "SystemExit(1)" ELSE "return"

\* run_sync after the loop: the summary, then SystemExit(1) or the return value;
\* the locals of the run are gone once it has ended
FinishRun ==
    /\ pc = "loop"
    /\ pos > Len(files_to_process)
    /\ pc' = "idle"
    /\ exit' = ExitOf(failures)
    /\ calls' = << >>
    /\ args' = NoArgs
    /\ files_to_process' = << >>
    /\ pos' = 1
    /\ file_stats' = [processed |-> 0, errors |-> 0, skipped |-> 0]
    /\ failures' = << >>
    /\ deleted_files' = 0
    /\ upserted_ids' = << >>
    /\ total_upserted' = 0
    /\ states' = << >>
    /\ UNCHANGED <<disk, index, journal, writable, uuid, last_indexing, intent, probe, budget, nruns, nrecs,
                   nedits>>

(***************************************************************************)
(* The change-set resolver.  What git prints, what the changed-files file  *)
(* holds and what the command line gives are inputs; a record is the pair  *)
(* <<status, path>>.                                                       *)
(***************************************************************************)
RECURSIVE Concat(_)
Concat(seqs) == IF seqs = << >> THEN << >> ELSE Head(seqs) \o Concat(Tail(seqs))

\* a reader that takes a rename line for an ordinary one
SuperDiffLineAsIs(line) ==
    LET cols == SplitOn(Strip(line), TAB)
    IN  IF Len(cols) >= 2 THEN << <<cols[1], cols[2]>> >> ELSE << >>

\* compute_changes_from_git, one line of the superproject's `diff --name-status`
SuperDiffLine(line) ==
    LET cols == SplitOn(Strip(line), TAB)
        st == cols[1]
    IN  IF StartsWith(st, "R") /\ Len(cols) >= 3
        THEN << << <<"D">>, cols[2] >>, << <<"M">>, cols[3] >> >>
        ELSE IF Len(cols) >= 2 THEN << <<st, cols[2]>> >>
        ELSE << >>

\* compute_changes_from_git, one line of a submodule's `diff --name-status`
SubDiffLine(sub_path, line) ==
    LET cols == SplitOn(Strip(line), TAB)
        st == cols[1]
    IN  IF StartsWith(st, "R") /\ Len(cols) >= 3
        THEN << << <<"D">>, JoinPath(sub_path, cols[2]) >>,
                << <<"M">>, JoinPath(sub_path, cols[3]) >> >>
        ELSE IF Len(cols) >= 2 THEN << <<st, JoinPath(sub_path, cols[2])>> >>
        ELSE << >>

\* re.fullmatch(r"0+", sha)
AllZero(sha) == sha # << >> /\ \A i \in 1..Len(sha) : sha[i] = "0"

\* the shortest abbreviated SHA the pattern of _parse_submodule_short takes
MinSha == 7

IsHex(ch) ==
    ch \in {"0", "1", "2", "3", "4", "5", "6", "7", "8", "9", "a", "b", "c", "d", "e", "f"}

\* the longest prefix of s made of hexadecimal digits, and of dots
RECURSIVE HexRun(_)
HexRun(s) == IF s = << >> \/ ~IsHex(Head(s)) THEN << >> ELSE <<Head(s)>> \o HexRun(Tail(s))

RECURSIVE DotRun(_)
DotRun(s) == IF s = << >> \/ Head(s) # "." THEN << >> ELSE <<".">> \o DotRun(Tail(s))

SUBMODULE == <<"S", "u", "b", "m", "o", "d", "u", "l", "e">>

\* _parse_submodule_short: the lines that match
\* ^Submodule\s+([^\s]+)\s+([0-9a-f]{7,})\.{2,3}([0-9a-f]{7,}).*$
\* give (sub_path, oldsha, newsha); every other line is passed over
ShaRange(rest) ==
    LET old == HexRun(rest)
        dots == DotRun(SubSeq(rest, Len(old) + 1, Len(rest)))
        new == HexRun(SubSeq(rest, Len(old) + Len(dots) + 1, Len(rest)))
    IN  [old |-> old, dots |-> dots, new |-> new]

SubmoduleHeader(parts) ==
    LET range == ShaRange(IF Len(parts) = 3 THEN parts[3] ELSE << >>)
    IN  IF /\ Len(parts) = 3
           /\ parts[1] = SUBMODULE
           /\ Len(range.old) >= MinSha
           /\ Len(range.dots) \in {2, 3}
           /\ Len(range.new) >= MinSha
        THEN << <<parts[2], range.old, range.new>> >>
        ELSE << >>

parse_submodule_short(diff_text) ==
    Concat([i \in 1..Len(diff_text) |-> SubmoduleHeader(SplitWs(Strip(diff_text[i]), 2))])

\* compute_changes_from_git, one changed submodule pointer: `out` is what git
\* prints for it (ls-tree names or diff lines) when `ok`
SubmoduleChanges(sub) ==
    LET added == AllZero(sub.oldsha)
        deleted == AllZero(sub.newsha)
        lines == [i \in 1..Len(sub.out) |-> Strip(sub.out[i])]
    IN  IF ~sub.ok THEN << >>
        ELSE IF added
        THEN Concat([i \in 1..Len(sub.out) |->
                       IF lines[i] # << >>
                       THEN << << <<"A">>, JoinPath(sub.sub_path, sub.out[i]) >> >>
                       ELSE << >>])
        ELSE IF deleted
        THEN Concat([i \in 1..Len(sub.out) |->
                       IF lines[i] # << >>
                       THEN << << <<"D">>, JoinPath(sub.sub_path, sub.out[i]) >> >>
                       ELSE << >>])
        ELSE Concat([i \in 1..Len(sub.out) |-> SubDiffLine(sub.sub_path, sub.out[i])])

\* compute_changes_from_git: superproject first, then each submodule pointer
\* that _parse_submodule_short finds in the output of
\* `git diff --submodule=short`; git.subs holds what git answers about each
\* submodule; a submodule that cannot be read is journalled and passed over
compute_changes_from_git(git, lines, written) ==
    IF ~git.ok
    THEN [raised |-> TRUE, changes |-> << >>, journal |-> lines,
          calls |-> << <<"git", "diff">> >>]
    ELSE
    LET expand(found) ==
          LET answer(k) == CHOOSE i \in 1..Len(git.subs) :
                                git.subs[i].sub_path = found[k][1]
              sub(k) == [git.subs[answer(k)] EXCEPT !.oldsha = found[k][2],
                                                    !.newsha = found[k][3]]
              failed == {k \in 1..Len(found) : ~sub(k).ok}
              errs == [k \in 1..Len(found) |->
                         IF k \in failed /\ written
                         THEN << ErrorRecord(found[k][1], "diff-submodule", "git", << >>) >>
                         ELSE << >>]
          IN  [raised |-> FALSE,
               changes |-> Concat([i \in 1..Len(git.super_out) |->
                                     SuperDiffLine(git.super_out[i])])
                           \o Concat([k \in 1..Len(found) |-> SubmoduleChanges(sub(k))]),
               journal |-> lines \o Concat(errs),
               calls |-> << <<"git", "diff">>, <<"git", "diff-submodule">> >>
                         \o [k \in 1..Len(found) |-> <<"git", found[k][1]>>]
                         \o Concat([k \in 1..Len(found) |->
                              IF k \in failed
                              THEN << <<"append_error", found[k][1], "diff-submodule">> >>
                              ELSE << >>])]
    IN  expand(parse_submodule_short(git.sub_out))

\* order-preserving removal of repeated elements
RECURSIVE Dedup(_)
Dedup(seq) ==
    IF seq = << >> THEN << >>
    ELSE LET init == Dedup(SubSeq(seq, 1, Len(seq) - 1))
             x == seq[Len(seq)]
         IN  IF \E i \in 1..Len(init) : init[i] = x THEN init ELSE Append(init, x)

\* compute_reindex_all_files: the superproject's tracked files without the
\* submodule mount points, then each submodule's tracked files, prefixed
compute_reindex_all_files(tree, lines, written) ==
    IF ~tree.ok
    THEN [raised |-> TRUE, records |-> << >>, journal |-> lines,
          calls |-> << <<"git", "ls-files">> >>]
    ELSE
    LET mounts == {tree.subs[i].sub_path : i \in 1..Len(tree.subs)}
        own == Concat([i \in 1..Len(tree.super_out) |->
                 LET fp == Strip(tree.super_out[i])
                 IN  IF fp = << >> \/ fp \in mounts THEN << >> ELSE <<fp>>])
        unread == {i \in 1..Len(tree.subs) : ~tree.subs[i].on_disk \/ ~tree.subs[i].ok}
        inner == Concat([i \in 1..Len(tree.subs) |->
                   IF i \in unread THEN << >>
                   ELSE Concat([k \in 1..Len(tree.subs[i].out) |->
                          LET fp == Strip(tree.subs[i].out[k])
                          IN  IF fp = << >> THEN << >>
                              ELSE << JoinPath(tree.subs[i].sub_path, fp) >>])])
        all_files == Dedup(own \o inner)
        errs == [i \in 1..Len(tree.subs) |->
                   IF i \in unread /\ written
                   THEN << ErrorRecord(tree.subs[i].sub_path, "ls-files-submodule",
                                       "git", << >>) >>
                   ELSE << >>]
    IN  [raised |-> FALSE,
         records |-> [i \in 1..Len(all_files) |-> << <<"A">>, all_files[i] >>],
         journal |-> lines \o Concat(errs),
         calls |-> << <<"git", "ls-files">> >>
                   \o Concat([i \in 1..Len(tree.subs) |->
                        IF i \in unread
                        THEN << <<"append_error", tree.subs[i].sub_path,
                                  "ls-files-submodule">> >>
                        ELSE << <<"git", tree.subs[i].sub_path>> >>])]

StatusSet == { <<"A">>, <<"M">>, <<"D">> }

\* main_entry's parse_token for one --files token
parse_token(tok) ==
    IF \E i \in 1..Len(tok) : tok[i] = ":"
    THEN LET parts == SplitOnce(tok, ":")
             st == Upper(Strip(parts[1]))
         IN  IF st \notin StatusSet THEN [raised |-> TRUE, record |-> << >>]
             ELSE [raised |-> FALSE, record |-> <<st, parts[2]>>]
    ELSE [raised |-> FALSE, record |-> << <<"M">>, tok >>]

\* a replay that takes the status of the line as it stands
RetryStatusAsIs(given) == given

\* main_entry, --retry-errors: (obj.get("status") or "M").upper(), and "M"
\* for anything but A, M, D; an absent status is the empty string here
RetryStatus(given) ==
    LET st == IF given = << >> THEN <<"M">> ELSE Upper(given)
    IN  IF st \in StatusSet THEN st ELSE <<"M">>

\* main_entry, --retry-errors: one line of the errors file.  A line is the
\* object json.loads returns for it; a line that is not JSON has the field
\* `raw` alone, and json.loads raising makes the loop pass over it
RetryLine(line) ==
    IF "raw" \in DOMAIN line THEN << >>
    ELSE LET fp == IF "file_path" \in DOMAIN line THEN line.file_path ELSE << >>
             st == RetryStatus(IF "status" \in DOMAIN line THEN line.status ELSE << >>)
         IN  IF fp # << >> THEN << <<st, fp>> >> ELSE << >>

\* main_entry, changed-files listing: one stripped, non-empty line
ListingLine(line) ==
    LET parts == SplitWs(line, 2)
        status == parts[1]
    IN  IF StartsWith(status, "R")
        THEN IF Len(parts) >= 3
             THEN [raised |-> FALSE,
                   records |-> << << <<"D">>, parts[2] >>, << <<"M">>, parts[3] >> >>]
             ELSE [raised |-> TRUE, records |-> << >>]
        ELSE [raised |-> FALSE,
              records |-> IF Len(parts) > 1 /\ parts[2] # << >>
                          THEN << <<status, parts[2]>> >> ELSE << >>]

\* main_entry, the changed-files listing: blank lines dropped, the first
\* malformed rename line aborts
ParseListing(listing) ==
    LET kept == Concat([i \in 1..Len(listing) |->
                  IF Strip(listing[i]) # << >> THEN << Strip(listing[i]) >> ELSE << >>])
        parsed == [i \in 1..Len(kept) |-> ListingLine(kept[i])]
    IN  [raised |-> \E i \in 1..Len(kept) : parsed[i].raised,
         records |-> Concat([i \in 1..Len(kept) |-> parsed[i].records])]

\* a full re-index that goes on with no file to index
NoFilesNever(records) == FALSE

\* main_entry, --reindex-all: `if not files_to_process`, which raises
\* "No tracked files found" before run_sync is called
NoFiles(records) == records = << >>

\* main_entry up to the call of run_sync: key validation, the exclusivity check
\* of --reindex-all, then the resolver of the selected input mode
main_entry(inv, lines, written) ==
    LET stop(code, made) ==
            [exit |-> code, records |-> << >>, journal |-> lines, calls |-> made]
        go(recs, jl, made) ==
            [exit |-> "", records |-> recs, journal |-> jl, calls |-> made]
        reindex(r) ==
            IF r.raised \/ NoFiles(r.records)
            THEN [stop("RuntimeError", r.calls) EXCEPT !.journal = r.journal]
            ELSE go(r.records, r.journal, r.calls)
        explicit(parsed) ==
            IF \E i \in 1..Len(parsed) : parsed[i].raised
            THEN stop("RuntimeError", << >>)
            ELSE go([i \in 1..Len(parsed) |-> parsed[i].record], lines, << >>)
        range(r) ==
            IF r.raised THEN stop("RuntimeError", r.calls)
            ELSE go(Concat([i \in 1..Len(r.changes) |->
                       IF StartsWith(r.changes[i][1], "R") THEN << >>
                       ELSE << r.changes[i] >>]),
                    r.journal, r.calls)
        listed(r) ==
            IF r.raised THEN stop("RuntimeError", << <<"read", "changed_files">> >>)
            ELSE go(r.records, lines, << <<"read", "changed_files">> >>)
    IN
    IF ~inv.pinecone_key \/ ~inv.voyage_key
    THEN stop(IF inv.skip_on_missing_keys THEN "SystemExit(0)" ELSE "RuntimeError", << >>)
    ELSE IF inv.reindex_all /\ (inv.files # << >> \/ inv.retry_errors \/ inv.changed_files)
    THEN stop("RuntimeError", << >>)
    ELSE IF inv.reindex_all
    THEN reindex(compute_reindex_all_files(inv.tree, lines, written))
    ELSE IF inv.files # << >>
    THEN explicit([i \in 1..Len(inv.files) |-> parse_token(inv.files[i])])
    ELSE IF inv.retry_errors
    THEN IF lines # << >>
         THEN go(Concat([i \in 1..Len(lines) |-> RetryLine(lines[i])]), lines,
                 << <<"read", "journal">> >>)
         ELSE stop("RuntimeError", << >>)
    ELSE IF ~inv.from_commit /\ ~inv.changed_files /\ ~inv.github
    THEN stop("RuntimeError", << >>)
    ELSE IF inv.from_commit \/ ~inv.changed_files
    THEN range(compute_changes_from_git(inv.git, lines, written))
    ELSE listed(ParseListing(inv.listing))

\* run_sync before the loop: the store client and its index, the embedding
\* client, then the namespace wipe of a full re-index
Prelude(inv, idx) ==
    LET \* lines 814-836 and 847-862: a list_indexes that fails ends the
        \* serverless set-up and leaves the classic one with no index known;
        \* a create_index that fails is a warning
        listed == inv.setup.list_ok /\ inv.setup.index_exists
        create == IF inv.setup.list_ok THEN ~inv.setup.index_exists
                  ELSE inv.setup.sdk = "classic"
        ensure == << <<"list_indexes">> >>
                  \o (IF ~listed /\ create THEN << <<"create_index">> >> ELSE << >>)
    IN
    IF inv.setup.sdk = "none"
    THEN [exit |-> "RuntimeError", index |-> idx, calls |-> << >>]
    ELSE IF ~inv.voyage_key
    THEN [exit |-> "RuntimeError", index |-> idx, calls |-> ensure]
    ELSE IF ~inv.wipe_first
    THEN [exit |-> "", index |-> idx, calls |-> ensure]
    ELSE IF inv.wipe = "error"
    THEN [exit |-> "RuntimeError", index |-> idx, calls |-> ensure \o << <<"wipe">> >>]
    ELSE [exit |-> "", index |-> IF inv.wipe = "ok" THEN {} ELSE idx,
          calls |-> ensure \o << <<"wipe">> >>]

\* One invocation: main_entry, then run_sync(wipe_first=args.reindex_all) up to
\* its loop.
StartRun(inv, runs, records) ==
    /\ pc = "idle"
    /\ nruns < runs
    /\ inv.wipe = "namespace not found" => index = {}
    /\ inv.wipe_first = inv.reindex_all
    /\ \E m \in {main_entry(inv, journal, writable)}, s \in {Prelude(inv, index)} :
       LET stopped == IF m.exit # "" THEN m.exit ELSE s.exit
       IN  /\ journal' = m.journal
           /\ index' = IF m.exit # "" THEN index ELSE s.index
           /\ calls' = IF m.exit # "" THEN m.calls ELSE m.calls \o s.calls
           /\ exit' = stopped
           /\ pc' = IF stopped # "" THEN "idle" ELSE "loop"
           /\ files_to_process' = IF stopped # "" THEN << >> ELSE m.records
           /\ nrecs' = IF stopped # "" THEN nrecs ELSE nrecs + Len(m.records)
           /\ nrecs' <= records
    /\ args' = inv
    /\ pos' = 1
    /\ file_stats' = [processed |-> 0, errors |-> 0, skipped |-> 0]
    /\ failures' = << >>
    /\ deleted_files' = 0
    /\ upserted_ids' = << >>
    /\ total_upserted' = 0
    /\ states' = << >>
    /\ nruns' = nruns + 1
    /\ UNCHANGED <<disk, writable, uuid, last_indexing, intent, probe, budget, nedits>>

\* The working tree changes between runs.
EditFile(fp, to) ==
    /\ pc = "idle"
    /\ nedits < MaxEdits
    /\ disk[fp] # to
    /\ disk' = [disk EXCEPT ![fp] = to]
    /\ nedits' = nedits + 1
    /\ UNCHANGED <<index, journal, writable, uuid, pc, args, files_to_process, pos,
                   file_stats, failures, deleted_files, upserted_ids, total_upserted,
                   exit, calls, states, last_indexing, intent, probe, budget, nruns, nrecs>>

\* The errors file becomes unwritable, or writable again.
EditJournalMode ==
    /\ pc = "idle"
    /\ nedits < MaxEdits
    /\ writable' = ~writable
    /\ nedits' = nedits + 1
    /\ UNCHANGED <<disk, index, journal, uuid, pc, args, files_to_process, pos,
                   file_stats, failures, deleted_files, upserted_ids, total_upserted,
                   exit, calls, states, last_indexing, intent, probe, budget, nruns, nrecs>>

(***************************************************************************)
(* Invocations.                                                            *)
(***************************************************************************)
SeqsUpTo(S, n) == UNION {[1..k -> S] : k \in 0..n}

(***************************************************************************)
(* The token budgeter.  A text is a sequence of characters: "x" is a       *)
(* character that the encoding makes one token of, "w" one that it spells  *)
(* with several, "." ends a sentence and a blank separates words.          *)
(***************************************************************************)
\* tokens the encoding spends on a character it does not know
HeavyTokens == 3

\* the character window of the last-resort split (3000 in the program; the
\* texts of the model are a thousand times shorter)
Window == 3

RECURSIVE CountTokens(_)
\* count_tokens: len(tokenizer.encode(text))
CountTokens(text) ==
    IF text = << >> THEN 0
    ELSE (IF IsSpace(Head(text)) THEN 0 ELSE IF Head(text) = "w" THEN HeavyTokens ELSE 1)
         + CountTokens(Tail(text))

IsSentenceEnd(ch) == ch \in {".", "!", "?"}

\* re.split(r'(?<=[.!?])\s+', section)
RECURSIVE SentenceSplit(_)
SentenceSplit(s) ==
    LET hits == {i \in 2..Len(s) : IsSpace(s[i]) /\ IsSentenceEnd(s[i - 1])}
    IN  IF hits = {} THEN <<s>>
        ELSE LET i == CHOOSE k \in hits : \A j \in hits : k <= j
             IN  <<SubSeq(s, 1, i - 1)>> \o SentenceSplit(LStrip(SubSeq(s, i, Len(s))))

\* lines 146-158: sentences are packed into chunks within the limit; a
\* sentence over the limit becomes a chunk of its own
RECURSIVE Pack(_, _, _)
Pack(parts, current_chunk, max_tokens) ==
    IF parts = << >>
    THEN IF Strip(current_chunk) # << >> THEN <<Strip(current_chunk)>> ELSE << >>
    ELSE LET part == Head(parts)
             test_chunk == IF current_chunk # << >> THEN current_chunk \o <<SP>> \o part
                           ELSE part
         IN  IF CountTokens(test_chunk) <= max_tokens
             THEN Pack(Tail(parts), test_chunk, max_tokens)
             ELSE (IF current_chunk # << >> THEN <<Strip(current_chunk)>> ELSE << >>)
                  \o Pack(Tail(parts), part, max_tokens)

\* re.findall(r'.{1,3000}(?:\s+|$)', chunk): from each position the longest
\* window that is followed by whitespace or by the end, with that whitespace;
\* a position from which no window ends so is passed over
RECURSIVE FindWindows(_)
FindWindows(s) ==
    IF s = << >> THEN << >>
    ELSE LET fits == {n \in 1..Window : n <= Len(s) /\ (n = Len(s) \/ IsSpace(s[n + 1]))}
         IN  IF fits = {} THEN FindWindows(Tail(s))
             ELSE LET n == CHOOSE k \in fits : \A j \in fits : j <= k
                      rest == LStrip(SubSeq(s, n + 1, Len(s)))
                  IN  <<SubSeq(s, 1, Len(s) - Len(rest))>> \o FindWindows(rest)

\* lines 160-167: every chunk collected so far that is over the limit is cut
\* on the character window
HardSplit(final_chunks, max_tokens) ==
    Concat([k \in 1..Len(final_chunks) |->
        IF CountTokens(final_chunks[k]) <= max_tokens THEN <<final_chunks[k]>>
        ELSE LET char_chunks == FindWindows(final_chunks[k])
             IN  Concat([j \in 1..Len(char_chunks) |->
                    IF Strip(char_chunks[j]) # << >> THEN <<Strip(char_chunks[j])>>
                    ELSE << >>])])

\* the loop over the sections, final_chunks being the chunks collected so far
RECURSIVE ReChunk(_, _, _)
ReChunk(sections, final_chunks, max_tokens) ==
    IF sections = << >> THEN final_chunks
    ELSE LET section == Strip(Head(sections))
         IN  IF section = << >> THEN ReChunk(Tail(sections), final_chunks, max_tokens)
             ELSE IF CountTokens(section) <= max_tokens
             THEN ReChunk(Tail(sections), Append(final_chunks, section), max_tokens)
             ELSE ReChunk(Tail(sections),
                          HardSplit(final_chunks \o Pack(SentenceSplit(section), << >>,
                                                         max_tokens),
                                    max_tokens),
                          max_tokens)

re_chunk_if_oversize(sections, max_tokens) == ReChunk(sections, << >>, max_tokens)

Token(st, fp) == st \o <<":">> \o fp

\* the invocations of the incremental specification: explicit files, journal
\* replay and full re-index
Tokens == {Token(<<"M">>, PA), Token(<<"D">>, PA), Token(<<"A">>, PB), Token(<<"D">>, PB)}

FilesInvocations ==
    {[BaseInv EXCEPT !.files = f] : f \in SeqsUpTo(Tokens, MaxLines) \ {<< >>}}

RetryInvocations == {[BaseInv EXCEPT !.retry_errors = TRUE]}

ReindexInvocations ==
    {[BaseInv EXCEPT !.reindex_all = TRUE, !.wipe_first = TRUE, !.wipe = w,
                     !.tree = [NoTree EXCEPT !.super_out = <<PA, PB>>]] :
        w \in DeleteAnswers}

Invocations == FilesInvocations \cup RetryInvocations \cup ReindexInvocations

\* a vector that a run for another repository left in the shared namespace
Foreign ==
    [id |-> <<PA, 0>>, values |-> DIMENSION, repo_name |-> "r2", file_path |-> PA,
     chunk_type |-> "content", chunk_index |-> 0, content |-> <<"small", "1">>,
     embedded |-> TRUE, should_embed |-> TRUE, status |-> <<"A">>]

Init ==
    /\ disk = [fp \in DiskPaths |-> IF fp = PA THEN "multi" ELSE "small"]
    /\ index = {Foreign}
    /\ journal = << >>
    /\ writable = TRUE
    /\ uuid = [fp \in DiskPaths |-> 0]
    /\ pc = "idle"
    /\ args = NoArgs
    /\ files_to_process = << >>
    /\ pos = 1
    /\ file_stats = [processed |-> 0, errors |-> 0, skipped |-> 0]
    /\ failures = << >>
    /\ deleted_files = 0
    /\ upserted_ids = << >>
    /\ total_upserted = 0
    /\ exit = ""
    /\ calls = << >>
    /\ states = << >>
    /\ last_indexing = [fp \in DiskPaths |-> [first |-> 0, n |-> 0, ok |-> TRUE]]
    /\ intent = [fp \in DiskPaths |-> << >>]
    /\ probe = NoProbe
    /\ budget = NoBudget
    /\ nruns = 0
    /\ nrecs = 0
    /\ nedits = 0

Next ==
    \/ \E inv \in Invocations : StartRun(inv, MaxRuns, MaxRecords)
    \/ ProcessRecord
    \/ FinishRun
    \/ \E fp \in DiskPaths, to \in DiskStates : EditFile(fp, to)
    \/ EditJournalMode

Spec == Init /\ [][Next]_vars

(***************************************************************************)
(* A single invocation over the whole command line: commit range (given or *)
(* detected), changed-files listing, --files tokens of any shape,          *)
(* --reindex-all alone and with other inputs, missing keys, set-up and git *)
(* failures, submodule pointers.                                           *)
(***************************************************************************)
RECURSIVE Join(_, _)
Join(cols, sep) ==
    IF Len(cols) = 1 THEN cols[1] ELSE cols[1] \o <<sep>> \o Join(Tail(cols), sep)

\* a line of `git diff --name-status`
Line(cols) == Join(cols, TAB)

R100 == <<"R", "1", "0", "0">>
C100 == <<"C", "1", "0", "0">>

\* a path with a blank in it
PBlank == <<"a", SP, "b">>

DiffLines ==
    {Line(<< <<"M">>, PA >>), Line(<< <<"D">>, PA >>), Line(<< <<"A">>, PB >>),
     Line(<< <<"T">>, PA >>), Line(<<C100, PA, PB>>),
     Line(<<R100, PA, PB>>), Line(<<R100, PBlank, PB>>), Line(<<R100, PA>>),
     << >>}

RangeInvocations ==
    {[BaseInv EXCEPT !.from_commit = fc, !.github = ~fc, !.git = [NoGit EXCEPT !.super_out = out]] :
        fc \in BOOLEAN, out \in SeqsUpTo(DiffLines, MaxLines)}
    \cup {[BaseInv EXCEPT !.from_commit = TRUE, !.git = [NoGit EXCEPT !.ok = FALSE]], BaseInv}

ListingInvocations ==
    {[BaseInv EXCEPT !.changed_files = TRUE, !.listing = out] :
        out \in SeqsUpTo(DiffLines, MaxLines)}

PSub == <<"s">>
Zeros == <<"0", "0", "0", "0", "0", "0", "0">>
Sha == <<"4", "b", "8", "2", "5", "d", "c">>

\* the ways a submodule pointer changes in a commit range
Submodules ==
    {[sub_path |-> PSub, oldsha |-> Zeros, newsha |-> Sha, ok |-> TRUE, out |-> <<PA>>],
     [sub_path |-> PSub, oldsha |-> Sha, newsha |-> Zeros, ok |-> TRUE, out |-> <<PA>>],
     [sub_path |-> PSub, oldsha |-> Sha, newsha |-> Sha, ok |-> TRUE,
      out |-> << Line(<<R100, PA, PBlank>>), Line(<< <<"T">>, PB >>) >>],
     [sub_path |-> PSub, oldsha |-> Sha, newsha |-> Sha, ok |-> FALSE, out |-> << >>]}

\* What `git diff --submodule=<format>` prints for a changed pointer.  The
\* short format, the one the program asks for, is an ordinary diff of the
\* gitlink entry:
\*     index <old>..<new> 160000
\*     -Subproject commit <old>
\*     +Subproject commit <new>
\* the log format has the header
\*     Submodule <path> <old>..<new>:
SUBPROJECT == <<"S", "u", "b", "p", "r", "o", "j", "e", "c", "t">>
COMMIT == <<"c", "o", "m", "m", "i", "t">>
INDEX == <<"i", "n", "d", "e", "x">>
GITLINK == <<"1", "6", "0", "0", "0", "0">>

ShortFormat(sub) ==
    << INDEX \o <<SP>> \o sub.oldsha \o <<".", ".">> \o sub.newsha \o <<SP>> \o GITLINK,
       <<"-">> \o SUBPROJECT \o <<SP>> \o COMMIT \o <<SP>> \o sub.oldsha,
       <<"+">> \o SUBPROJECT \o <<SP>> \o COMMIT \o <<SP>> \o sub.newsha >>

LogFormat(sub) ==
    << SUBMODULE \o <<SP>> \o sub.sub_path \o <<SP>>
         \o sub.oldsha \o <<".", ".">> \o sub.newsha \o <<":">> >>

SubmoduleInvocations ==
    {[BaseInv EXCEPT !.from_commit = TRUE,
                     !.git = [NoGit EXCEPT !.super_out = own, !.subs = <<sub>>,
                                           !.sub_out = IF short THEN ShortFormat(sub)
                                                       ELSE LogFormat(sub)]] :
        own \in {<< >>, <<Line(<< <<"M">>, PA >>)>>},
        short \in BOOLEAN,
        sub \in Submodules}

WideTokens ==
    {Token(<<"M">>, PA), Token(<<"m">>, PB), Token(<<SP, "d", SP>>, PA),
     Token(<<"X">>, PA), PB, Token(<<"A">>, PSub)}

TokenInvocations ==
    {[BaseInv EXCEPT !.files = f] : f \in SeqsUpTo(WideTokens, MaxLines) \ {<< >>}}

\* a submodule of the working tree: whether its directory is there, whether
\* `git ls-files` answers in it, and the files it tracks
Mounted(d, k) == [sub_path |-> PSub, on_disk |-> d, ok |-> k, out |-> <<PB>>]

\* working trees with a submodule declared in .gitmodules: checked out, not
\* checked out, unreadable; the last tree tracks nothing but the mount point
SubmoduleTrees ==
    {[ok |-> TRUE, super_out |-> <<PA, PSub>>, subs |-> <<Mounted(TRUE, TRUE)>>],
     [ok |-> TRUE, super_out |-> <<PA, PSub>>, subs |-> <<Mounted(FALSE, TRUE)>>],
     [ok |-> TRUE, super_out |-> <<PA, PSub>>, subs |-> <<Mounted(TRUE, FALSE)>>],
     [ok |-> TRUE, super_out |-> <<PSub>>, subs |-> <<Mounted(FALSE, TRUE)>>]}

FullReindex ==
    [BaseInv EXCEPT !.reindex_all = TRUE, !.wipe_first = TRUE,
                    !.tree = [NoTree EXCEPT !.super_out = <<PA, PB>>]]

\* --reindex-all alone, and together with each of the other inputs
ReindexWith ==
    {[FullReindex EXCEPT !.wipe = w] : w \in DeleteAnswers}
    \cup {[FullReindex EXCEPT !.files = <<Token(<<"M">>, PA)>>],
          [FullReindex EXCEPT !.retry_errors = TRUE],
          [FullReindex EXCEPT !.changed_files = TRUE, !.listing = <<Line(<< <<"M">>, PA >>)>>],
          [FullReindex EXCEPT !.from_commit = TRUE,
                              !.git = [NoGit EXCEPT !.super_out = <<Line(<< <<"M">>, PA >>)>>]]}
    \cup {[FullReindex EXCEPT !.tree = [NoTree EXCEPT !.ok = FALSE]],
          [FullReindex EXCEPT !.tree = NoTree]}
    \cup {[FullReindex EXCEPT !.tree = t] : t \in SubmoduleTrees}

\* missing credentials and failing set-up, on a good command line and on a
\* conflicting one
Credentials ==
    {[inv EXCEPT !.pinecone_key = pk, !.voyage_key = vk, !.skip_on_missing_keys = sk] :
        inv \in {[BaseInv EXCEPT !.files = <<Token(<<"M">>, PA)>>],
                 [FullReindex EXCEPT !.from_commit = TRUE],
                 [FullReindex EXCEPT !.retry_errors = TRUE]},
        pk \in BOOLEAN, vk \in BOOLEAN, sk \in BOOLEAN}

Setups ==
    {[BaseInv EXCEPT !.files = <<Token(<<"M">>, PA)>>,
                     !.setup = [sdk |-> k, list_ok |-> l, index_exists |-> x,
                                create_ok |-> c]] :
        k \in {"serverless", "classic", "none"}, l \in BOOLEAN, x \in BOOLEAN,
        c \in BOOLEAN}

WideInvocations ==
    RangeInvocations \cup ListingInvocations \cup SubmoduleInvocations
    \cup TokenInvocations \cup ReindexWith \cup Credentials \cup Setups
    \cup {[BaseInv EXCEPT !.retry_errors = TRUE]}

NextOnce ==
    \/ \E inv \in WideInvocations : StartRun(inv, 1, 2 * MaxLines)
    \/ ProcessRecord
    \/ FinishRun

\* the namespace holds another repository's vector, or does not exist yet;
\* the errors file can be written, or cannot
InitOnce ==
    /\ disk = [fp \in DiskPaths |-> IF fp = PA THEN "multi" ELSE "small"]
    /\ index \in { {Foreign}, {} }
    /\ journal = << >>
    /\ writable \in BOOLEAN
    /\ uuid = [fp \in DiskPaths |-> 0]
    /\ pc = "idle"
    /\ args = NoArgs
    /\ files_to_process = << >>
    /\ pos = 1
    /\ file_stats = [processed |-> 0, errors |-> 0, skipped |-> 0]
    /\ failures = << >>
    /\ deleted_files = 0
    /\ upserted_ids = << >>
    /\ total_upserted = 0
    /\ exit = ""
    /\ calls = << >>
    /\ states = << >>
    /\ last_indexing = [fp \in DiskPaths |-> [first |-> 0, n |-> 0, ok |-> TRUE]]
    /\ intent = [fp \in DiskPaths |-> << >>]
    /\ probe = NoProbe
    /\ budget = NoBudget
    /\ nruns = 0
    /\ nrecs = 0
    /\ nedits = 0

SpecOnce == InitOnce /\ [][NextOnce]_vars


(***************************************************************************)
(* A replay of an errors file left by earlier runs or edited by hand: lines *)
(* the program writes (with and without status), statuses it does not      *)
(* know, a line without file_path, a line that is not JSON.                *)
(***************************************************************************)
NotJson == [raw |-> <<"{">>]

JournalLines ==
    {ErrorRecord(PA, "process", "embedding", <<"M">>),
     ErrorRecord(PB, "process", "delete", <<"D">>),
     ErrorRecord(PB, "upsert", "upsert", <<"A">>),
     ErrorRecord(PA, "process", "embedding", <<"T">>),
     ErrorRecord(PA, "process", "delete", <<"d">>),
     ErrorRecord(PB, "ls-files-submodule", "git", << >>),
     ErrorRecord(<< >>, "process", "embedding", <<"M">>),
     [operation |-> "process", message |-> "embedding", status |-> <<"M">>],
     NotJson}

InitReplay ==
    /\ disk = [fp \in DiskPaths |-> IF fp = PA THEN "multi" ELSE "small"]
    /\ index = {Foreign}
    /\ journal \in SeqsUpTo(JournalLines, MaxLines)
    /\ writable = TRUE
    /\ uuid = [fp \in DiskPaths |-> 0]
    /\ pc = "idle"
    /\ args = NoArgs
    /\ files_to_process = << >>
    /\ pos = 1
    /\ file_stats = [processed |-> 0, errors |-> 0, skipped |-> 0]
    /\ failures = << >>
    /\ deleted_files = 0
    /\ upserted_ids = << >>
    /\ total_upserted = 0
    /\ exit = ""
    /\ calls = << >>
    /\ states = << >>
    /\ last_indexing = [fp \in DiskPaths |-> [first |-> 0, n |-> 0, ok |-> TRUE]]
    /\ intent = [fp \in DiskPaths |-> << >>]
    /\ probe = NoProbe
    /\ budget = NoBudget
    /\ nruns = 0
    /\ nrecs = 0
    /\ nedits = 0

NextReplay ==
    \/ \E inv \in RetryInvocations : StartRun(inv, 1, MaxLines)
    \/ ProcessRecord
    \/ FinishRun

SpecReplay == InitReplay /\ [][NextReplay]_vars


(***************************************************************************)
(* The embedding gateway called on its own, on texts that process_file     *)
(* never hands to it (empty, blanks only) and on ordinary ones, followed   *)
(* by one run over explicit files.                                         *)
(***************************************************************************)
Texts == {<< >>, <<SP>>, <<TAB, SP>>, <<"x">>, <<SP, "x", SP>>}

Embed(text, ans) ==
    /\ pc = "idle"
    /\ nruns = 0
    /\ ~probe.done
    /\ \E r \in {get_embedding(text, ans)} :
          /\ probe' = [done |-> TRUE, text |-> text, ans |-> ans, result |-> r]
          /\ calls' = IF r.called THEN << <<"embed", text, ans>> >> ELSE << >>
    /\ UNCHANGED <<disk, index, journal, writable, uuid, pc, args, files_to_process, pos,
                   file_stats, failures, deleted_files, upserted_ids, total_upserted,
                   exit, states, last_indexing, intent, budget, nruns, nrecs, nedits>>

NextEmbed ==
    \/ \E text \in Texts, ans \in EmbedAnswers : Embed(text, ans)
    \/ \E inv \in FilesInvocations : StartRun(inv, 1, MaxLines)
    \/ ProcessRecord
    \/ FinishRun

SpecEmbed == Init /\ [][NextEmbed]_vars


(***************************************************************************)
(* The token budgeter called on its own: one section of up to MaxChars     *)
(* characters, or two shorter ones, under a limit below the window's       *)
(* tokens and under one in the ratio of MAX_TOKENS to the window.          *)
(***************************************************************************)
\* characters of a section
MaxChars == 6
\* characters of each section of a pair
MaxPairChars == 3

Alphabet == {"x", "w", ".", SP}
Limits == {2, 8}

SectionLists ==
    {<<t>> : t \in SeqsUpTo(Alphabet, MaxChars)}
    \cup {<<t, u>> : t \in SeqsUpTo(Alphabet, MaxPairChars),
                     u \in SeqsUpTo(Alphabet, MaxPairChars)}

InitBudget ==
    /\ disk = [fp \in DiskPaths |-> IF fp = PA THEN "multi" ELSE "small"]
    /\ index = {Foreign}
    /\ journal = << >>
    /\ writable = TRUE
    /\ uuid = [fp \in DiskPaths |-> 0]
    /\ pc = "idle"
    /\ args = NoArgs
    /\ files_to_process = << >>
    /\ pos = 1
    /\ file_stats = [processed |-> 0, errors |-> 0, skipped |-> 0]
    /\ failures = << >>
    /\ deleted_files = 0
    /\ upserted_ids = << >>
    /\ total_upserted = 0
    /\ exit = ""
    /\ calls = << >>
    /\ states = << >>
    /\ last_indexing = [fp \in DiskPaths |-> [first |-> 0, n |-> 0, ok |-> TRUE]]
    /\ intent = [fp \in DiskPaths |-> << >>]
    /\ probe = NoProbe
    /\ budget \in {[NoBudget EXCEPT !.sections = l, !.max_tokens = m] :
                      l \in SectionLists, m \in Limits}
    /\ nruns = 0
    /\ nrecs = 0
    /\ nedits = 0

Budget ==
    /\ ~budget.done
    /\ budget' = [budget EXCEPT
                    !.done = TRUE,
                    !.chunks = re_chunk_if_oversize(budget.sections, budget.max_tokens)]
    /\ UNCHANGED <<disk, index, journal, writable, uuid, pc, args, files_to_process, pos,
                   file_stats, failures, deleted_files, upserted_ids, total_upserted,
                   exit, calls, states, last_indexing, intent, probe, nruns, nrecs, nedits>>

NextBudget == Budget

SpecBudget == InitBudget /\ [][NextBudget]_vars


(***************************************************************************)
(* Properties of the executor, checked under Spec.                         *)
(***************************************************************************)
\* the repo tag of every run of the model
RunRepo == BaseInv.repo_name

Ids(S) == {v.id : v \in S}

\* what a vector says of its file: position, text, embedding, kind
Chunks(S) == {<<v.chunk_index, v.content, v.values, v.chunk_type>> : v \in S}

\* the ids drawn by the last indexing of fp that got past its pre-delete
DrawnBy(fp) ==
    {<<fp, k>> : k \in (last_indexing[fp].first + 1) ..
                        (last_indexing[fp].first + last_indexing[fp].n)}

\* the record that the step from this state processes, and the last one processed
Current == files_to_process[pos]
Previous == files_to_process[pos - 1]
StepsRecord == pc = "loop" /\ pos' = pos + 1
JustProcessed == pc = "loop" /\ pos > 1

\* C1, as the specification states it: at all times the store holds, for a
\* path and the run's repo tag, only vectors of the most recent processing of
\* the path that succeeded, or none.
C1_OnlyLastSuccessful ==
    \A fp \in DiskPaths :
        VectorsOf(index, RunRepo, fp) # {} =>
            /\ last_indexing[fp].ok
            /\ Ids(VectorsOf(index, RunRepo, fp)) \subseteq DrawnBy(fp)

\* C1, amended: at all times the store holds, for a path and the run's repo
\* tag, only vectors written by the most recent indexing of the path that got
\* past its pre-delete, whether or not that indexing recorded a failure; and
\* an Add or Modify record outside full-wipe mode either leaves the store as
\* it was (the record is skipped or fails before anything is written) or
\* leaves none of the path's earlier vectors, and touches no other vector.
C1_OnlyLastIndexing ==
    /\ [](\A fp \in DiskPaths :
            Ids(VectorsOf(index, RunRepo, fp)) \subseteq DrawnBy(fp))
    /\ [][(StepsRecord /\ Current[1] \in { <<"A">>, <<"M">> } /\ ~args.wipe_first) =>
            LET fp == Current[2]
                old == VectorsOf(index, RunRepo, fp)
                new == VectorsOf(index', RunRepo, fp)
            IN  \/ index' = index /\ states'[pos].state \in {"Failed", "Skipped"}
                \/ /\ new \cap old = {}
                   /\ index' \ new = index \ old
                   /\ Ids(new) \subseteq {<<fp, k>> : k \in (uuid[fp] + 1)..uuid'[fp]}]_vars

\* C1 witness: a second indexing of a path lost a batch, and the store holds
\* what its other batch wrote, and nothing of the first indexing
C1_Witness ==
    /\ JustProcessed
    /\ last_indexing[PA].first > 0
    /\ ~last_indexing[PA].ok
    /\ VectorsOf(index, RunRepo, PA) # {}
    /\ Ids(VectorsOf(index, RunRepo, PA)) \subseteq DrawnBy(PA)

\* what the vectors of a file of this kind say, when all of it is indexed
ExpectedChunks(kind) ==
    LET d == dispatch_chunking(kind)
    IN  {<<i - 1, d.chunks[i], IF ShouldCall(d, kind, i) THEN DIMENSION ELSE 0, d.chunk_type>> :
           i \in 1..Len(d.chunks)}

\* C2: a Modify record processed twice in succession for an unchanged file,
\* every call succeeding, leaves after the second the same chunks (positions,
\* texts, embeddings) as after the first, and as many vectors; in the same run
\* or in two runs, since a Modify that records no failure leaves exactly the
\* chunks of the file's content, whatever the store held before.
C2_ModifyTwice ==
    /\ [][(/\ StepsRecord
           /\ Current[1] = <<"M">>
           /\ ~args.wipe_first
           /\ states'[pos] = [state |-> "Reindexed", errors |-> 0]) =>
             LET new == VectorsOf(index', RunRepo, Current[2])
             IN  /\ Chunks(new) = ExpectedChunks(disk[Current[2]])
                 /\ Cardinality(new) = NChunks(disk[Current[2]])]_vars
    /\ [][(/\ StepsRecord
        /\ pos >= 2
        /\ Current = Previous
        /\ Current[1] = <<"M">>
        /\ ~args.wipe_first
        /\ failures' = << >>
        /\ states[pos - 1].state = "Reindexed"
        /\ states'[pos].state = "Reindexed") =>
          LET old == VectorsOf(index, RunRepo, Current[2])
              new == VectorsOf(index', RunRepo, Current[2])
          IN  /\ Chunks(new) = Chunks(old)
              /\ Cardinality(new) = Cardinality(old)
              /\ old # {}
              /\ index' \ new = index \ old]_vars

\* C2 witness: the same Modify record has been processed twice with success
C2_Witness ==
    /\ JustProcessed
    /\ pos = 3
    /\ files_to_process[1] = files_to_process[2]
    /\ files_to_process[2] = << <<"M">>, PA >>
    /\ failures = << >>
    /\ states[1].state = "Reindexed"
    /\ states[2].state = "Reindexed"
    /\ Cardinality(VectorsOf(index, RunRepo, PA)) = NChunks(disk[PA])

\* C3, as the specification states it: once a Delete record has been processed
\* without an error, the store holds no vector for its path under the repo tag.
C3_DeleteRemovesAll ==
    (JustProcessed /\ Previous[1] = <<"D">> /\ states[pos - 1].errors = 0) =>
        VectorsOf(index, RunRepo, Previous[2]) = {}

\* C4, as the specification states it: after the pair Delete(A), Add(B) has
\* been processed in one run without a failure, B being a file on disk, the
\* store holds no vector for A and exactly the chunks of B's content.
C4_RenamePair ==
    (/\ JustProcessed
     /\ pos = 3
     /\ Len(files_to_process) = 2
     /\ files_to_process[1][1] = <<"D">>
     /\ files_to_process[2][1] \in { <<"A">>, <<"M">> }
     /\ files_to_process[1][2] # files_to_process[2][2]
     /\ ~args.wipe_first
     /\ failures = << >>
     /\ Exists(files_to_process[2][2])
     /\ ~IsDir(files_to_process[2][2])) =>
        LET b == files_to_process[2][2]
        IN  /\ VectorsOf(index, RunRepo, files_to_process[1][2]) = {}
            /\ Cardinality(VectorsOf(index, RunRepo, b)) = NChunks(disk[b])
            /\ {<<v.chunk_index, v.content>> : v \in VectorsOf(index, RunRepo, b)}
                 = {<<i - 1, <<disk[b], Numerals[i]>> >> : i \in 1..NChunks(disk[b])}

\* the batches of a file that hold a content chunk without an embedding
UnembeddedBatches(fp) ==
    LET kind == disk[fp]
        d == dispatch_chunking(kind)
    IN  {b \in 1..NBatches(Len(d.chunks)) :
           \E i \in ((b - 1) * BATCH_SIZE + 1)..(b * BATCH_SIZE) :
              /\ i <= Len(d.chunks)
              /\ d.chunk_type = "content"
              /\ ~ShouldCall(d, kind, i)}

\* C5: the store never holds a content vector without an embedding of the
\* index's dimension; a batch that holds such a chunk is rejected before the
\* upsert call, none of its chunks is written, and the failure is recorded
\* against its file only.
C5_NoEmptyContent ==
    /\ [](\A v \in index : v.chunk_type = "content" => v.values = DIMENSION)
    /\ [][(/\ StepsRecord
           /\ states'[pos].state = "Reindexed"
           /\ UnembeddedBatches(Current[2]) # {}) =>
            LET fp == Current[2]
                n == NChunks(disk[fp])
                bad == UnembeddedBatches(fp)
                lost == {i \in 1..n : \E b \in bad :
                           i \in ((b - 1) * BATCH_SIZE + 1)..(b * BATCH_SIZE)}
                new == SubSeq(failures', Len(failures) + 1, Len(failures'))
            IN  /\ \A i \in lost : <<fp, uuid[fp] + i>> \notin Ids(index')
                /\ Cardinality({k \in 1..Len(calls') : calls'[k][1] = "upsert"})
                     = NBatches(n) - Cardinality(bad)
                /\ Cardinality({k \in 1..Len(new) : new[k].message = "empty embedding"})
                     = Cardinality(bad)
                /\ \A k \in 1..Len(new) : new[k].file_path = fp
                /\ file_stats'.errors = file_stats.errors + Len(new)]_vars

\* C5 witness: a file with an oversize content chunk was indexed; its one batch
\* was rejected and nothing of it is in the store
C5_Witness ==
    /\ JustProcessed
    /\ Previous[1] # <<"D">>
    /\ Exists(Previous[2])
    /\ disk[Previous[2]] = "huge"
    /\ states[pos - 1] = [state |-> "Reindexed", errors |-> 1]
    /\ failures[Len(failures)].message = "empty embedding"
    /\ VectorsOf(index, RunRepo, Previous[2]) = {}

\* what every step of the loop does to the failure list, the error count and
\* the run: the failures of the record are appended, each carrying its path
\* and status, the count grows by their number, and the run goes on
RecordsItsFailures ==
    LET new == SubSeq(failures', Len(failures) + 1, Len(failures'))
    IN  /\ Len(new) = states'[pos].errors
        /\ failures' = failures \o new
        /\ \A k \in 1..Len(new) :
              new[k].file_path = Current[2] /\ new[k].status = Current[1]
        /\ file_stats'.errors = file_stats.errors + Len(new)
        /\ states'[pos].state = "Failed" => Len(new) = 1
        /\ pc' = "loop"

\* C6, as the specification states it: a record that fails appends exactly one
\* ErrorRecord with its path and status to the journal, the error count grows
\* by one, and every later record is still processed.
C6_OneJournalLine ==
    /\ [][(pc = "loop" /\ pc' = "idle") => Len(states) = Len(files_to_process)]_vars
    /\ [][(StepsRecord /\ states'[pos].state = "Failed") =>
            /\ RecordsItsFailures
            /\ journal' = Append(journal, failures'[Len(failures')])]_vars

\* C6, amended: a record that fails adds exactly one entry with its path and
\* status to the run's failure list and one to the error count, and every
\* later record is still processed; the journal gains exactly that entry when
\* the errors file can be written and nothing when it cannot.  A record whose
\* batches fail adds one entry per failed batch in the same way.
C6_OneFailureEntry ==
    /\ [][(pc = "loop" /\ pc' = "idle") => Len(states) = Len(files_to_process)]_vars
    /\ [][(StepsRecord /\ states'[pos].state # "Skipped") =>
            /\ RecordsItsFailures
            /\ journal' = IF writable
                          THEN journal \o SubSeq(failures', Len(failures) + 1, Len(failures'))
                          ELSE journal]_vars

\* C6 witness: the first record of a run failed, its line is in the journal,
\* and the second record was indexed
C6_Witness ==
    /\ JustProcessed
    /\ pos = 3
    /\ states[1] = [state |-> "Failed", errors |-> 1]
    /\ states[2] = [state |-> "Reindexed", errors |-> 0]
    /\ Len(failures) = 1
    /\ failures[1].file_path = files_to_process[1][2]
    /\ journal # << >>
    /\ journal[Len(journal)] = failures[1]
    /\ file_stats.errors = 1

\* C7: a run ends with SystemExit(1) exactly when some record of it recorded a
\* failure, and only once every record has been attempted; a run whose records
\* were only skipped as directories returns; no other step ends with
\* SystemExit(1).
C7_ExitCode ==
    /\ [][(pc = "loop" /\ pc' = "idle") =>
            /\ Len(states) = Len(files_to_process)
            /\ exit' = "SystemExit(1)" <=> \E i \in 1..Len(states) : states[i].errors > 0
            /\ exit' \in {"SystemExit(1)", "return"}
            /\ (\A i \in 1..Len(states) : states[i].state = "Skipped") => exit' = "return"]_vars
    /\ [][pc = "idle" => exit' # "SystemExit(1)" \/ UNCHANGED exit]_vars

\* C7 witness: a run whose first record failed and whose second was indexed
\* has ended with SystemExit(1); its journal line is the failed record's
C7_Witness ==
    /\ pc = "idle"
    /\ exit = "SystemExit(1)"
    /\ nrecs >= 2
    /\ journal # << >>
    /\ journal[Len(journal)].operation = "process"
    /\ VectorsOf(index, RunRepo, PB) # {}

\* C17: a record whose path is a directory is skipped whatever its
\* operation: the skipped count grows by one and the error count by none,
\* nothing is added to the failure list, no store or embedding call is made
\* and the store is as it was; a skip-dir line is journalled if the errors
\* file can be written; the loop goes on to the next record, and a run
\* whose records recorded no failure returns normally.
C17_DirectorySkipped ==
    /\ [][(StepsRecord /\ IsDir(Current[2])) =>
            /\ file_stats' = [file_stats EXCEPT !.skipped = @ + 1]
            /\ failures' = failures
            /\ index' = index
            /\ uuid' = uuid
            /\ \A k \in 1..Len(calls') : calls'[k][1] = "append_error"
            /\ journal' = IF writable
                          THEN Append(journal, ErrorRecord(Current[2], "skip-dir",
                                                         "directory", Current[1]))
                          ELSE journal
            /\ states' = Append(states, [state |-> "Skipped", errors |-> 0])
            /\ pc' = "loop"]_vars
    /\ [][(pc = "loop" /\ pc' = "idle" /\ \A i \in 1..Len(states) : states[i].errors = 0)
             => exit' = "return"]_vars

\* C17 witness: a run whose first record, a Delete, names a directory and
\* whose second record was indexed has ended with a normal return
C17_Witness ==
    /\ pc = "idle"
    /\ exit = "return"
    /\ nrecs = 2
    /\ IsDir(PA)
    /\ Len(journal) = 1
    /\ journal[1] = ErrorRecord(PA, "skip-dir", "directory", <<"D">>)
    /\ VectorsOf(index, RunRepo, PB) # {}

(***************************************************************************)
(* Properties of the resolver and of the command line, checked under       *)
(* SpecOnce.                                                               *)
(***************************************************************************)
\* the renames among the inputs: <<old, new>>
Renames == { <<PA, PB>>, <<PBlank, PB>> }
BlankFree == { <<PA, PB>> }

RenameLines(rs) == [i \in 1..Len(rs) |-> Line(<<R100, rs[i][1], rs[i][2]>>)]
Pairs(rs, op) ==
    Concat([i \in 1..Len(rs) |-> << << <<"D">>, rs[i][1] >>, <<op, rs[i][2]>> >>])

IsPrefix(p, q) == Len(p) <= Len(q) /\ SubSeq(q, 1, Len(p)) = p
IsSuffix(p, q) == Len(p) <= Len(q) /\ SubSeq(q, Len(q) - Len(p) + 1, Len(q)) = p

\* the records of a run whose input lines are `lines`: a rename of the set
\* `known` has given Delete(old) and op(new), and nothing else, wherever the
\* line stands
Resolved(lines, known, op) ==
    /\ \A rs \in SeqsUpTo(known, MaxLines) \ {<< >>} :
          lines = RenameLines(rs) => files_to_process = Pairs(rs, op)
    /\ \A r \in known :
          /\ (lines # << >> /\ lines[1] = Line(<<R100, r[1], r[2]>>))
                => IsPrefix(Pairs(<<r>>, op), files_to_process)
          /\ (lines # << >> /\ lines[Len(lines)] = Line(<<R100, r[1], r[2]>>))
                => IsSuffix(Pairs(<<r>>, op), files_to_process)

RangeMode ==
    /\ pc = "loop"
    /\ ~args.reindex_all /\ args.files = << >> /\ ~args.retry_errors
    /\ args.from_commit \/ ~args.changed_files

ListingMode ==
    /\ pc = "loop"
    /\ ~args.reindex_all /\ args.files = << >> /\ ~args.retry_errors
    /\ ~args.from_commit /\ args.changed_files

\* the submodule diff of the model that holds a rename
RenamedInSubmodule ==
    /\ RangeMode
    /\ args.git.subs # << >>
    /\ args.git.sub_out = LogFormat(args.git.subs[1])
    /\ args.git.super_out = << >>
    /\ args.git.subs[1].out # << >>
    /\ args.git.subs[1].out[1] = Line(<<R100, PA, PBlank>>)

RenamesResolveTo(op, listed) ==
    /\ (RangeMode /\ args.git.subs = << >>) => Resolved(args.git.super_out, Renames, op)
    /\ ListingMode => Resolved(args.listing, listed, op)
    /\ RenamedInSubmodule =>
          IsPrefix(<< << <<"D">>, JoinPath(PSub, PA) >>, <<op, JoinPath(PSub, PBlank)>> >>,
                   files_to_process)

C9_OnlyAMD ==
    /\ pc = "loop" =>
          \A i \in 1..Len(files_to_process) : files_to_process[i][1] \in StatusSet
    /\ \A i \in 1..Len(states) :
          states[i].state = "Reindexed" => files_to_process[i][1] \in StatusSet

\* a step that serves a new invocation
Invoked == pc = "idle" /\ nruns' = nruns + 1

\* C10, as the specification states it: with both keys present, --reindex-all
\* together with --files, --retry-errors, --from-commit or a changed-files
\* path ends in an error before anything is called, read or written.
C10_ReindexAllAlone ==
    [][(/\ Invoked
        /\ args'.reindex_all
        /\ args'.pinecone_key /\ args'.voyage_key
        /\ \/ args'.files # << >>
           \/ args'.retry_errors
           \/ args'.from_commit
           \/ args'.changed_files) =>
           /\ pc' = "idle"
           /\ exit' = "RuntimeError"
           /\ calls' = << >>
           /\ index' = index
           /\ journal' = journal]_vars

\* the files a working tree tracks: the superproject's without the mount
\* points, and those of the submodules `subs`, prefixed
TrackedFiles(tree, subs) ==
    ({tree.super_out[i] : i \in 1..Len(tree.super_out)}
        \ ({tree.subs[k].sub_path : k \in 1..Len(tree.subs)} \cup {<< >>}))
    \cup UNION {{tree.subs[k].sub_path \o <<"/">> \o tree.subs[k].out[i] :
                    i \in 1..Len(tree.subs[k].out)} : k \in subs}

Readable(tree) == {k \in 1..Len(tree.subs) : tree.subs[k].on_disk /\ tree.subs[k].ok}

\* --reindex-all alone, with both keys, in a working tree git can list
ReindexAlone(inv) ==
    /\ inv.reindex_all /\ inv.pinecone_key /\ inv.voyage_key
    /\ inv.files = << >> /\ ~inv.retry_errors /\ ~inv.changed_files
    /\ inv.tree.ok

StoreCalls(made) ==
    {k \in 1..Len(made) : made[k][1] \in {"wipe", "delete", "upsert", "create_index"}}

\* C11: a full re-index whose resolver finds no file to index (nothing is
\* tracked, or only mount points of submodules that cannot be listed) ends
\* with RuntimeError in the step that serves it: the wipe is not issued, no
\* other store call is made, the namespace is as it was and no record is
\* processed.
C11_EmptyReindexAborts ==
    [][(/\ Invoked
        /\ ReindexAlone(args')
        /\ TrackedFiles(args'.tree, Readable(args'.tree)) = {}) =>
           /\ pc' = "idle"
           /\ exit' = "RuntimeError"
           /\ StoreCalls(calls') = {}
           /\ index' = index
           /\ files_to_process' = << >>]_vars

\* C11 witness: --reindex-all in a tree that tracks only the mount point of a
\* submodule that is not checked out has ended with RuntimeError, the
\* other repository's vector still in the namespace
C11_Witness ==
    /\ pc = "idle"
    /\ nruns = 1
    /\ ReindexAlone(args)
    /\ args.tree.super_out = <<PSub>>
    /\ exit = "RuntimeError"
    /\ calls = << <<"git", "ls-files">>, <<"append_error", PSub, "ls-files-submodule">> >>
    /\ index = {Foreign}

CallsOf(made, kind) == {k \in 1..Len(made) : made[k][1] = kind}

\* C12: the namespace wipe is issued only by the step that enters run_sync
\* for --reindex-all, exactly once and before the first record; no step of
\* the loop issues it, and in that mode the loop issues no filtered delete
\* for an Add or Modify record.  A wipe that succeeds empties the namespace;
\* one answered "namespace not found" leaves it as it was and the run goes
\* on to its records; one that fails otherwise ends the invocation with
\* RuntimeError, no record processed and the namespace untouched.
C12_WipeOnceFirst ==
    [][/\ CallsOf(calls', "wipe") # {} =>
             /\ Invoked
             /\ args'.reindex_all
             /\ Cardinality(CallsOf(calls', "wipe")) = 1
       /\ (Invoked /\ pc' = "loop") =>
             /\ pos' = 1 /\ states' = << >>
             /\ args'.reindex_all <=> CallsOf(calls', "wipe") # {}
       /\ (Invoked /\ CallsOf(calls', "wipe") # {}) =>
             /\ args'.wipe = "ok" => pc' = "loop" /\ index' = {}
             /\ args'.wipe = "namespace not found" => pc' = "loop" /\ index' = index
             /\ args'.wipe = "error" =>
                   /\ pc' = "idle" /\ exit' = "RuntimeError"
                   /\ index' = index /\ files_to_process' = << >>
       /\ (StepsRecord /\ args.reindex_all
             /\ files_to_process[pos][1] \in { <<"A">>, <<"M">> }) =>
             CallsOf(calls', "delete") = {}]_vars

\* C12 witness: a full re-index whose wipe was answered "namespace not found"
\* went on and has indexed its first file without a filtered delete
C12_Witness ==
    /\ pc = "loop"
    /\ args.reindex_all
    /\ args.wipe = "namespace not found"
    /\ pos = 2
    /\ states[1].state = "Reindexed"
    /\ CallsOf(calls, "delete") = {}
    /\ CallsOf(calls, "upsert") # {}
    /\ VectorsOf(index, args.repo_name, PA) # {}

\* the records of a full re-index are Add records of the superproject's
\* files outside the mount points and of the files of the submodules `subs`
ReindexEmits(subs) ==
    (pc = "loop" /\ args.reindex_all) =>
        /\ {files_to_process[i] : i \in 1..Len(files_to_process)}
              = {<< <<"A">>, f >> : f \in TrackedFiles(args.tree, subs)}
        /\ \A i \in 1..Len(files_to_process) : files_to_process[i][1] = <<"A">>

PointerRecords(sub) ==
    LET at(f) == sub.sub_path \o <<"/">> \o f
    IN  IF sub.oldsha = Zeros
        THEN [i \in 1..Len(sub.out) |-> << <<"A">>, at(sub.out[i]) >>]
        ELSE IF sub.newsha = Zeros
        THEN [i \in 1..Len(sub.out) |-> << <<"D">>, at(sub.out[i]) >>]
        ELSE << << <<"D">>, at(PA) >>, << <<"M">>, at(PBlank) >>, << <<"T">>, at(PB) >> >>

\* in a commit range with one changed pointer whose git calls answer, the
\* records are the superproject's, then the pointer's
PointersExpand(printed) ==
    (/\ RangeMode
     /\ Len(args.git.subs) = 1
     /\ args.git.subs[1].ok
     /\ args.git.sub_out \in printed) =>
        files_to_process =
            (IF args.git.super_out = << >> THEN << >> ELSE << << <<"M">>, PA >> >>)
            \o PointerRecords(args.git.subs[1])

\* C14, as the specification states it: in commit-range mode every
\* submodule whose pointer changed gives, after the superproject's records,
\* Add records of its files (old SHA all zeros), Delete records of its files
\* (new SHA all zeros) or the records of its own diff with renames expanded,
\* all paths prefixed by the submodule's path.
C14_PointerChanges ==
    PointersExpand({ShortFormat(args.git.subs[1]), LogFormat(args.git.subs[1])})

\* the same for pointer changes that git reports with a `Submodule` header
PointerHeadersExpand == PointersExpand({LogFormat(args.git.subs[1])})

(***************************************************************************)
(* Properties of the journal replay, checked under SpecReplay.             *)
(***************************************************************************)
\* a line that is JSON and has a file_path
WellFormed(line) ==
    "file_path" \in DOMAIN line /\ line.file_path # << >>

StatusOf(line) == IF "status" \in DOMAIN line THEN line.status ELSE << >>

\* the step that serves --retry-errors on the errors file `journal` goes on
\* to the loop with one record per well-formed line, in the order of the
\* file, carrying the line's path and the operation op(line)
ReplayYields(op(_)) ==
    (Invoked /\ args'.retry_errors /\ journal # << >>) =>
        /\ pc' = "loop"
        /\ exit' = ""
        /\ files_to_process' =
              Concat([i \in 1..Len(journal) |->
                        IF WellFormed(journal[i])
                        THEN << <<op(journal[i]), journal[i].file_path>> >>
                        ELSE << >>])

\* the line's status, in capitals
StatedOp(line) == Upper(StatusOf(line))

\* the line's status in capitals if that is A, M or D, Modify otherwise
ReplayedOp(line) ==
    IF Upper(StatusOf(line)) \in { <<"A">>, <<"M">>, <<"D">> }
    THEN Upper(StatusOf(line)) ELSE <<"M">>

\* C15, as the specification states it: every well-formed journal line with
\* a file_path gives exactly one record, in journal order, with the line's
\* path and the line's status as its operation; malformed lines give none
\* and do not abort the run.
C15_ReplayLineStatus == [][ReplayYields(StatedOp)]_vars

\* C15, amended: the operation of the record is the line's status only when
\* that is A, M or D (in either case); a line without status, as the
\* resolver's submodule lines are, or with any other status gives Modify.
C15_ReplayAMDOrModify == [][ReplayYields(ReplayedOp)]_vars

\* C15 witness: an errors file whose first line is not JSON and whose second
\* is a submodule line without status was replayed as one Modify record,
\* which has been processed
C15_Witness ==
    /\ pc = "loop"
    /\ args.retry_errors
    /\ Len(journal) >= 2
    /\ journal[1] = NotJson
    /\ journal[2] = ErrorRecord(PB, "ls-files-submodule", "git", << >>)
    /\ files_to_process = << << <<"M">>, PB >> >>
    /\ pos = 2

(***************************************************************************)
(* Properties of the retry, checked under Spec.                            *)
(***************************************************************************)
Journaled == {journal[i].file_path : i \in 1..Len(journal)} \cap DiskPaths

\* a replay of the journal has processed all its records, none failed and
\* none skipped
RetrySucceeded ==
    /\ pc = "loop"
    /\ args.retry_errors
    /\ pos > Len(files_to_process)
    /\ failures = << >>
    /\ \A i \in 1..Len(states) : states[i].state \in {"Reindexed", "Deleted"}

\* C16, as the specification states it: after a replay of the journal in
\* which nothing fails, every journaled path is as the last operation a
\* change set gave for it wants it: with exactly the vectors of the file's
\* current content after Add or Modify, with none after Delete.
C16_RetryConverges ==
    RetrySucceeded =>
        \A fp \in Journaled :
            /\ (intent[fp] \in { <<"A">>, <<"M">> } /\ disk[fp] \in FileKinds) =>
                  Chunks(VectorsOf(index, RunRepo, fp)) = ExpectedChunks(disk[fp])
            /\ intent[fp] = <<"D">> => VectorsOf(index, RunRepo, fp) = {}

(***************************************************************************)
(* Properties of the loop over one invocation, checked under SpecOnce.     *)
(***************************************************************************)
\* the record of the step, the filtered delete it issues and the answer
DeleteAnswered(ans) ==
    /\ StepsRecord
    /\ \E k \in 1..Len(calls') :
          calls'[k] = <<"delete", args.repo_name, Current[2], ans>>

Outcome == states'[Len(states')]

\* C19: a filtered delete that matches nothing, or that is answered
\* "namespace not found", counts as done: the Delete record ends Deleted with
\* no failure and the store untouched, and the pre-clean of an Add or Modify
\* record is followed by the indexing of the file, no failure naming the
\* delete.  A delete that fails otherwise fails its record alone: one
\* failure, the store untouched, nothing embedded or upserted, and the loop
\* goes on.
C19_DeleteNoOp ==
    [][/\ (\/ DeleteAnswered("namespace not found")
           \/ DeleteAnswered("ok") /\ VectorsOf(index, args.repo_name, Current[2]) = {}) =>
             /\ Current[1] = <<"D">> =>
                   /\ Outcome = [state |-> "Deleted", errors |-> 0]
                   /\ failures' = failures
                   /\ index' = index
                   /\ deleted_files' = deleted_files + 1
             /\ Current[1] # <<"D">> =>
                   /\ CallsOf(calls', "embed") # {}
                   /\ deleted_files' = deleted_files + 1
                   /\ \A i \in 1..Len(failures') :
                         i > Len(failures) => failures'[i].message # "delete"
             /\ pc' = "loop"
       /\ DeleteAnswered("error") =>
             /\ Outcome = [state |-> "Failed", errors |-> 1]
             /\ failures' = Append(failures, ErrorRecord(Current[2], "process", "delete",
                                                       Current[1]))
             /\ index' = index
             /\ deleted_files' = deleted_files
             /\ CallsOf(calls', "embed") = {} /\ CallsOf(calls', "upsert") = {}
             /\ pc' = "loop"]_vars

\* C19 witness: in a namespace that does not exist yet a Delete record was
\* answered "namespace not found" and ended Deleted, and the record after
\* it has been processed
C19_Witness ==
    /\ pc = "loop"
    /\ pos = 3
    /\ index = {}
    /\ states[1] = [state |-> "Deleted", errors |-> 0]
    /\ calls = << <<"delete", args.repo_name, files_to_process[2][2], "namespace not found">> >>
    /\ states[2] = [state |-> "Deleted", errors |-> 0]
    /\ failures = << >>

\* an Add or Modify record whose path is not on disk is a failure of that
\* record alone: one entry in the failure list, the error count up by one
\* (the skipped count too), no store or embedding call, the store as it
\* was, the loop going on, SystemExit(1) at the end of the run; and the
\* journal as `journalled` says
MissingFileFails(journalled(_, _)) ==
    (/\ StepsRecord
     /\ Current[1] \in { <<"A">>, <<"M">> }
     /\ ~Exists(Current[2])) =>
        LET rec == ErrorRecord(Current[2], "process", "not found", Current[1])
        IN  /\ failures' = Append(failures, rec)
            /\ file_stats' = [file_stats EXCEPT !.errors = @ + 1, !.skipped = @ + 1]
            /\ journal' = journalled(journal, rec)
            /\ index' = index
            /\ \A k \in 1..Len(calls') : calls'[k][1] = "append_error"
            /\ states' = Append(states, [state |-> "Failed", errors |-> 1])
            /\ pc' = "loop"

Always(lines, rec) == Append(lines, rec)
IfWritable(lines, rec) == IF writable THEN Append(lines, rec) ELSE lines

FailedRunExits ==
    (pc = "loop" /\ pc' = "idle" /\ \E i \in 1..Len(states) : states[i].errors > 0)
        => exit' = "SystemExit(1)"

\* C18, as the specification states it: an Add or Modify record whose path
\* does not exist is recorded as a failure, with one ErrorRecord in the
\* journal, one more error and a non-zero exit, and the later records are
\* processed.
C18_MissingFileJournalled ==
    [][MissingFileFails(Always) /\ FailedRunExits]_vars

\* C18, amended: the ErrorRecord reaches the journal only if the errors file
\* can be written; the entry of the failure list, the error count and the
\* exit code do not depend on it.
C18_MissingFileFails ==
    [][MissingFileFails(IfWritable) /\ FailedRunExits]_vars

\* C18 witness: a run whose first record adds a file that is not on disk
\* and whose second record was indexed has ended with SystemExit(1)
C18_Witness ==
    /\ pc = "idle"
    /\ exit = "SystemExit(1)"
    /\ nrecs = 2
    /\ journal = << ErrorRecord(PSub, "process", "not found", <<"A">>) >>
    /\ VectorsOf(index, RunRepo, PA) # {}

(***************************************************************************)
(* Properties of the embedding gateway, checked under SpecEmbed.           *)
(***************************************************************************)
Blank(text) == \A k \in 1..Len(text) : text[k] \in {SP, TAB}

\* an embedding call of the step was answered by something get_embedding
\* is to reject
EmbeddingRejected ==
    /\ StepsRecord
    /\ \E k \in 1..Len(calls') :
          /\ calls'[k][1] = "embed"
          /\ LET ans == calls'[k][3]
             IN  ans.raises \/ ans.len = 0 \/ ans.len # DIMENSION \/ ~ans.finite

\* C20: get_embedding raises on an empty text and on a text of blanks
\* without calling the service; on any other text it calls the service and
\* raises if the call raises or the result is empty, of a length other than
\* DIMENSION, or holds a non-finite value, and returns the DIMENSION values
\* otherwise.  In the loop a rejected embedding fails the record of the
\* file: one failure for it, no upsert, nothing added to the store; and no
\* embedded vector in the store has other than DIMENSION values.
C20_EmbeddingValidated ==
    /\ [](probe.done =>
            /\ Blank(probe.text) => probe.result.raised /\ ~probe.result.called
            /\ ~Blank(probe.text) =>
                  /\ probe.result.called
                  /\ probe.result.raised <=>
                        \/ probe.ans.raises \/ probe.ans.len = 0
                        \/ probe.ans.len # DIMENSION \/ ~probe.ans.finite
                  /\ ~probe.result.raised => probe.result.values = DIMENSION)
    /\ [](\A v \in index : v.embedded => v.values = DIMENSION)
    /\ [][EmbeddingRejected =>
            /\ Outcome = [state |-> "Failed", errors |-> 1]
            /\ failures' = Append(failures, ErrorRecord(Current[2], "process", "embedding",
                                                      Current[1]))
            /\ CallsOf(calls', "upsert") = {}
            /\ index' \subseteq index
            /\ pc' = "loop"]_vars

\* C20 witness: get_embedding was called on a text of blanks and raised
\* without calling the service; then, in a run, the service returned a
\* non-finite value for a chunk of b, the record failed and the store holds
\* no vector of b
C20_Witness ==
    /\ probe.done
    /\ probe.text = <<TAB, SP>>
    /\ probe.result = [raised |-> TRUE, called |-> FALSE, values |-> 0]
    /\ pc = "loop"
    /\ pos = 2
    /\ files_to_process[1][2] = PB
    /\ states[1] = [state |-> "Failed", errors |-> 1]
    /\ \E k \in 1..Len(calls) : calls[k][1] = "embed" /\ ~calls[k][3].finite
    /\ VectorsOf(index, RunRepo, PB) = {}

(***************************************************************************)
(* Properties of the embedding of chunks, checked under Spec.              *)
(***************************************************************************)
\* the texts of the chunks of the file of the record being processed
ChunkTexts == LET d == dispatch_chunking(disk[Current[2]])
              IN  {d.chunks[i] : i \in 1..Len(d.chunks)}

Refused(ans) == ans.raises \/ ans.len = 0 \/ ans.len # DIMENSION \/ ~ans.finite

\* C21: the step that processes a record calls the embedding service at most
\* once for each chunk of the record's file, the calls following the order of
\* the chunks; a call that fails or whose result is refused is the last
\* embedding call of the step, for that chunk and for every other, and the
\* record ends Failed.
C21_EmbedAtMostOnce ==
    [][StepsRecord =>
         LET e == CallsOf(calls', "embed")
         IN  /\ \A j \in e, k \in e : j # k => calls'[j][2] # calls'[k][2]
             /\ \A k \in e : calls'[k][2] \in ChunkTexts
             /\ Cardinality(e) <= Cardinality(ChunkTexts)
             /\ \A k \in e : Refused(calls'[k][3]) =>
                   /\ \A j \in e : j <= k
                   /\ Outcome.state = "Failed"]_vars

\* C21 witness: the first of the eleven chunks of a was sent to the service,
\* which raised; the step made that one embedding call and the record failed
C21_Witness ==
    /\ JustProcessed
    /\ Previous[2] = PA
    /\ disk[PA] = "multi"
    /\ states[pos - 1].state = "Failed"
    /\ Cardinality(CallsOf(calls, "embed")) = 1
    /\ \E k \in CallsOf(calls, "embed") : calls[k][3].raises /\ calls[k][2] = <<"multi", "1">>

\* the failures that the step adds
NewFailures == SubSeq(failures', Len(failures) + 1, Len(failures'))

\* the chunks of the record's file that are not to be sent to the service
Unsent == LET kind == disk[Current[2]]
              d == dispatch_chunking(kind)
          IN  {i \in 1..Len(d.chunks) : ~ShouldCall(d, kind, i)}

\* the step indexes a file that has a chunk not to be embedded, and neither
\* the store nor the embedding service refuses a call of the step
IndexesUnsent ==
    /\ StepsRecord
    /\ Outcome.state = "Reindexed"
    /\ Unsent # {}
    /\ \A k \in 1..Len(NewFailures) : NewFailures[k].message = "empty embedding"

NotEmbedded(i) ==
    LET d == dispatch_chunking(disk[Current[2]])
    IN  \A k \in CallsOf(calls', "embed") : calls'[k][2] # d.chunks[i]

StoredBare(i) ==
    \E v \in index' :
       /\ v.id = <<Current[2], uuid[Current[2]] + i>>
       /\ v.file_path = Current[2]
       /\ v.repo_name = args.repo_name
       /\ v.chunk_index = i - 1
       /\ v.values = 0
       /\ ~v.embedded

RECURSIVE NonBlank(_)
NonBlank(text) ==
    IF text = << >> THEN << >>
    ELSE (IF IsSpace(Head(text)) THEN << >> ELSE <<Head(text)>>) \o NonBlank(Tail(text))

\* C23, as the specification states it: whatever the sections and the limit,
\* every chunk that re_chunk_if_oversize returns has a token count at or
\* below the limit.
C23_ChunksWithinLimit ==
    budget.done =>
        \A k \in 1..Len(budget.chunks) : CountTokens(budget.chunks[k]) <= budget.max_tokens

\* C24, as the specification states it: the chunks that re_chunk_if_oversize
\* returns, joined in order, hold the text of the sections, in order, with
\* nothing lost and nothing repeated, blanks apart.
C24_NothingLost ==
    budget.done => NonBlank(Concat(budget.chunks)) = NonBlank(Concat(budget.sections))

(***************************************************************************)
(* Properties of the error journal, checked under Spec.                    *)
(***************************************************************************)
\* what an iteration of the loop yields for the current record when the
\* errors file can be written (TRUE) and when it cannot (FALSE)
Iteration(e, written) ==
    LoopBody(Current[1], Current[2], args.repo_name, args.wipe_first,
             e.del, e.failAt, e.bad, e.up, written)

\* whatever the store and the embedding service answer, the iteration that
\* cannot write the journal yields what the one that can yields (state of the
\* record, tallies, failures, ids, store, calls), the journal apart, which it
\* leaves as it is
WriteFailureSwallowed ==
    \A e \in Answers(Current[1], Current[2], args.wipe_first) :
       \E can \in {Iteration(e, TRUE)}, cannot \in {Iteration(e, FALSE)} :
          /\ cannot = [can EXCEPT !.journal = journal]
          /\ IsPrefix(journal, can.journal)

\* C25: no step removes or rewrites a line of the journal: the journal
\* before a step is a prefix of the journal after it, in every run, a replay
\* of the journal included.  A journal that cannot be written changes
\* nothing else: the record ends in the same state with the same tallies,
\* failures and store as if the line had been written, the loop goes on, and
\* the run still ends with SystemExit(1) exactly if it recorded a failure.
C25_JournalAppendOnly ==
    /\ [][IsPrefix(journal, journal')]_vars
    /\ []((pc = "loop" /\ pos <= Len(files_to_process)) => WriteFailureSwallowed)
    /\ [][(StepsRecord /\ ~writable) => journal' = journal /\ pc' = "loop"]_vars
    /\ [][(pc = "loop" /\ pc' = "idle") =>
            (exit' = "SystemExit(1)" <=> failures # << >>)]_vars

\* C25 witness: a replay of a journal of one line, the errors file no longer
\* writable, has failed the record again; the journal still holds that line
\* only, and the failure is counted
C25_Witness ==
    /\ pc = "loop"
    /\ args.retry_errors
    /\ ~writable
    /\ pos = 2
    /\ states[1].state = "Failed"
    /\ file_stats.errors = 1
    /\ Len(failures) = 1
    /\ Len(journal) = 1
    /\ journal[1].file_path = files_to_process[1][2]

(***************************************************************************)
(* Properties of the set-up and of the resolver's failures, checked under  *)
(* SpecOnce.                                                               *)
(***************************************************************************)
MissingKeys(inv) == ~inv.pinecone_key \/ ~inv.voyage_key

\* the index cannot be reached (list_indexes fails, or no client is
\* installed) or is absent and cannot be created
IndexUnavailable(inv) ==
    \/ inv.setup.sdk = "none"
    \/ ~inv.setup.list_ok
    \/ ~inv.setup.index_exists /\ ~inv.setup.create_ok

Mutations(made) == {k \in 1..Len(made) : made[k][1] \in {"wipe", "delete", "upsert"}}

\* the invocation ends in the step that serves it, with no record to
\* process, the store as it was and no delete, upsert or wipe issued
Aborts ==
    /\ pc' = "idle"
    /\ files_to_process' = << >>
    /\ index' = index
    /\ Mutations(calls') = {}

\* C26, as the specification states it: an invocation with a credential
\* missing, or whose index cannot be reached or created, ends before any
\* record is processed and before any store mutation: with exit code 0 if
\* credentials are missing and the skip flag is set, with an error otherwise.
C26_SetupFatalAborts ==
    [][(Invoked /\ (MissingKeys(args') \/ IndexUnavailable(args'))) =>
          /\ Aborts
          /\ exit' = IF MissingKeys(args') /\ args'.skip_on_missing_keys
                     THEN "SystemExit(0)" ELSE "RuntimeError"]_vars

\* the command line selects the commit range, given or detected
RangeSelected(inv) ==
    /\ ~inv.reindex_all /\ inv.files = << >> /\ ~inv.retry_errors
    /\ inv.from_commit \/ (~inv.changed_files /\ inv.github)

\* no input mode, --reindex-all with another input, a full re-index that
\* finds nothing, a commit range that git cannot read in the superproject
\* or in a submodule whose pointer changed
ResolverFatal(inv) ==
    \/ /\ ~inv.reindex_all /\ inv.files = << >> /\ ~inv.retry_errors
       /\ ~inv.from_commit /\ ~inv.changed_files /\ ~inv.github
    \/ /\ inv.reindex_all
       /\ inv.files # << >> \/ inv.retry_errors \/ inv.from_commit \/ inv.changed_files
    \/ ReindexAlone(inv) /\ TrackedFiles(inv.tree, Readable(inv.tree)) = {}
    \/ /\ RangeSelected(inv)
       /\ ~inv.git.ok \/ \E i \in 1..Len(inv.git.subs) : ~inv.git.subs[i].ok

\* C27, as the specification states it: with both keys present, an
\* invocation with a resolver-fatal condition ends with an error in the step
\* that serves it: no record is processed, no store call is made, the store
\* is as it was.
C27_ResolverFatalAborts ==
    [][(Invoked /\ ~MissingKeys(args') /\ ResolverFatal(args')) =>
          /\ Aborts
          /\ exit' = "RuntimeError"
          /\ StoreCalls(calls') = {}]_vars

\* the same for the conditions other than --reindex-all with --from-commit
\* and an unreadable submodule
ResolverFatalButTwo ==
    [][(/\ Invoked /\ ~MissingKeys(args') /\ ResolverFatal(args')
        /\ ~(args'.reindex_all /\ args'.from_commit)
        /\ \A i \in 1..Len(args'.git.subs) : args'.git.subs[i].ok) =>
          /\ Aborts
          /\ exit' = "RuntimeError"
          /\ StoreCalls(calls') = {}]_vars

(***************************************************************************)
(* The chunking service fails.                                             *)
(***************************************************************************)
\* the chunking service is asked for a file of this kind and raises, or
\* answers with no chunk
ChunkerFails(kind) ==
    /\ kind \in FileKinds \ {"csv"}
    /\ chunk_file(kind).raises \/ chunk_file(kind).chunks = << >>

\* the step processes an Add or Modify record of a file for which the
\* chunking service fails
IndexesUnchunked ==
    /\ StepsRecord
    /\ Current[1] \in { <<"A">>, <<"M">> }
    /\ ChunkerFails(disk[Current[2]])

\* C28: a failure of the chunking service for a file (an exception, or an
\* empty result) never fails the record.  The file has a single chunk of kind
\* Summary; a failure that the step records is one of the pre-delete, of the
\* embedding call or of the upsert; and a step that records none ends
\* Reindexed, with one embedding call, for that chunk, and with exactly one
\* vector of the path in the store, of kind Summary and embedded.
C28_ChunkerFailureFallsBack ==
    [][IndexesUnchunked =>
         LET fp == Current[2]
             d == dispatch_chunking(disk[fp])
             e == CallsOf(calls', "embed")
             new == VectorsOf(index', RunRepo, fp)
         IN  /\ d.chunk_type = "summary" /\ Len(d.chunks) = 1 /\ d.should_embed
             /\ \A k \in 1..Len(NewFailures) :
                   \/ /\ NewFailures[k].message = "delete"
                      /\ \E j \in CallsOf(calls', "delete") : calls'[j][4] = "error"
                   \/ /\ NewFailures[k].message = "embedding"
                      /\ \E j \in e : Refused(calls'[j][3])
                   \/ /\ NewFailures[k].message = "upsert"
                      /\ CallsOf(calls', "upsert") # {}
             /\ NewFailures = << >> =>
                   /\ Outcome = [state |-> "Reindexed", errors |-> 0]
                   /\ Cardinality(e) = 1
                   /\ \A j \in e : calls'[j][2] = d.chunks[1] /\ ~Refused(calls'[j][3])
                   /\ Cardinality(new) = 1
                   /\ Chunks(new) = {<<0, d.chunks[1], DIMENSION, "summary">>}
                   /\ \A v \in new : v.embedded]_vars

\* C28 witness: the chunking service raised for b; the record ended
\* Reindexed after one embedding call and the store holds one Summary vector
\* of b, embedded
C28_Witness ==
    /\ JustProcessed
    /\ disk[PB] = "unparsed"
    /\ Previous[2] = PB
    /\ states[pos - 1] = [state |-> "Reindexed", errors |-> 0]
    /\ Cardinality(CallsOf(calls, "embed")) = 1
    /\ Chunks(VectorsOf(index, RunRepo, PB)) = {<<0, <<"unparsed", "1">>, DIMENSION, "summary">>}

(***************************************************************************)
(* The ids that a run returns.                                             *)
(***************************************************************************)
\* the run ends without a failure and returns its ids
Returns == pc = "loop" /\ pc' = "idle" /\ exit' = "return"

Listed(ids) == {ids[k] : k \in 1..Len(ids)}

\* the ids that the step appends
NewIds == Listed(SubSeq(upserted_ids', Len(upserted_ids) + 1, Len(upserted_ids')))

\* the records of the run that name fp
Naming(fp) == {k \in 1..Len(files_to_process) : files_to_process[k][2] = fp}

\* every step appends exactly the ids of the vectors it wrote, as many as it
\* adds to the count of chunks upserted, and a run that returns lists as
\* many ids as it counts, with an id of every existing file of an Add or
\* Modify record
ListsWhatItWrote ==
    /\ [][StepsRecord =>
            /\ NewIds = Ids(index') \ Ids(index)
            /\ Cardinality(NewIds) = Len(upserted_ids') - Len(upserted_ids)
            /\ Cardinality(NewIds) = total_upserted' - total_upserted]_vars
    /\ [][Returns =>
            /\ Len(upserted_ids) = total_upserted
            /\ Cardinality(Listed(upserted_ids)) = total_upserted
            /\ \A k \in 1..Len(files_to_process) :
                  LET fp == files_to_process[k][2]
                  IN  (/\ files_to_process[k][1] \in { <<"A">>, <<"M">> }
                       /\ fp \in DiskPaths
                       /\ disk[fp] \in FileKinds) =>
                         \E u \in Listed(upserted_ids) : u[1] = fp]_vars

\* C29, as the specification states it: after a run that completes without
\* failures the ids it returns are exactly the ids of the vectors written in
\* the run, non-empty for an Add or Modify of an existing file, as many as
\* the count of chunks upserted, and each of them is in the store.
C29_ReturnedIdsFetchable ==
    /\ ListsWhatItWrote
    /\ [][Returns => Listed(upserted_ids) \subseteq Ids(index)]_vars

\* What holds of the ids that a run returns: they are the ids of the vectors
\* written in the run, as many as the count of chunks upserted.  An id is in
\* the store when its record has been processed, and stays there until a
\* later record of the run names the same path outside full-wipe mode; so the
\* returned ids of a path that one record of the run names, and all of them
\* in full-wipe mode, are in the store.
ReturnedIdsWritten ==
    /\ ListsWhatItWrote
    /\ [][StepsRecord =>
            /\ NewIds \subseteq Ids(index')
            /\ \A u \in Listed(upserted_ids) :
                  (u[1] # Current[2] \/ args.wipe_first) =>
                     (u \in Ids(index') <=> u \in Ids(index))]_vars
    /\ [][Returns =>
            \A u \in Listed(upserted_ids) :
               (Cardinality(Naming(u[1])) = 1 \/ args.wipe_first) => u \in Ids(index)]_vars

(***************************************************************************)
(* The order of the calls of one record.                                   *)
(***************************************************************************)
\* the step processes an Add or Modify record outside full-wipe mode
Replaces == StepsRecord /\ Current[1] \in { <<"A">>, <<"M">> } /\ ~args.wipe_first

\* the embedding calls and the upserts among the calls made
Writes(made) == CallsOf(made, "embed") \cup CallsOf(made, "upsert")

\* C30: for an Add or Modify record outside full-wipe mode the filtered
\* delete of the path is the first call of the step, it is requested once,
\* and it has been answered without an error before any embedding call or
\* upsert of the record; if it fails, the step issues no embedding call and
\* no upsert and the record ends Failed; and nothing of another record comes
\* between the delete and the last upsert: every call of the step names the
\* record's path or a chunk of its file, and the step leaves the vectors of
\* every other path as they were.
C30_DeleteBeforeInsert ==
    [][Replaces =>
         LET fp == Current[2]
             d == CallsOf(calls', "delete")
         IN  /\ Cardinality(d) <= 1
             /\ \A j \in d : j = 1 /\ calls'[j][2] = args.repo_name /\ calls'[j][3] = fp
             /\ Writes(calls') # {} => \E j \in d : calls'[j][4] # "error"
             /\ (\E j \in d : calls'[j][4] = "error") =>
                   /\ Writes(calls') = {}
                   /\ Outcome.state = "Failed"
                   /\ index' = index
             /\ \A k \in CallsOf(calls', "embed") : calls'[k][2] \in ChunkTexts
             /\ \A k \in CallsOf(calls', "upsert") :
                   calls'[k][2] <= Cardinality(ChunkTexts)
             /\ \A k \in CallsOf(calls', "append_error") : calls'[k][2] = fp
             /\ \A k \in 1..Len(calls') :
                   calls'[k][1] \in {"delete", "embed", "upsert", "append_error"}
             /\ index' \ VectorsOf(index', args.repo_name, fp)
                  = index \ VectorsOf(index, args.repo_name, fp)]_vars

\* C30 witness: the record M:a was processed outside full-wipe mode; its
\* delete was answered "ok", eleven embedding calls and two upserts followed;
\* and, for the failing case, the record before it lost its delete and made
\* no other call than the one that journals the failure
C30_Witness ==
    /\ JustProcessed
    /\ ~args.wipe_first
    /\ Previous = << <<"M">>, PA >>
    /\ disk[PA] = "multi"
    /\ calls[1] = <<"delete", args.repo_name, PA, "ok">>
    /\ Cardinality(CallsOf(calls, "embed")) = BATCH_SIZE + 1
    /\ Cardinality(CallsOf(calls, "upsert")) = 2
    /\ pos > 2
    /\ states[pos - 2].state = "Failed"
    /\ failures[1].message = "delete"

(***************************************************************************)
(* The tallies of a run.                                                   *)
(***************************************************************************)
\* what the step adds to each tally; the pre-delete of an Add or Modify
\* record, which the count of deletions includes, is left out
Tallied ==
    [skipped |-> file_stats'.skipped - file_stats.skipped,
     deleted |-> IF Current[1] = <<"D">> THEN deleted_files' - deleted_files ELSE 0,
     processed |-> file_stats'.processed - file_stats.processed,
     errors |-> file_stats'.errors - file_stats.errors]

\* C31: every record of a run ends in exactly one of the states Skipped,
\* Deleted, Reindexed, Failed, and the step that processes it adds one to
\* exactly one of the tallies skipped, deleted, processed, errors, the one of
\* its state, and nothing to the others.
C31_OneTallyPerRecord ==
    [][StepsRecord =>
         LET t == Tallied
         IN  /\ Outcome.state \in {"Skipped", "Deleted", "Reindexed", "Failed"}
             /\ t.skipped + t.deleted + t.processed + t.errors = 1
             /\ t.skipped = 1 <=> Outcome.state = "Skipped"
             /\ t.deleted = 1 <=> Outcome.state = "Deleted"
             /\ t.processed = 1 <=> Outcome.state = "Reindexed"
             /\ t.errors = 1 <=> Outcome.state = "Failed"]_vars

\* What holds of the tallies: a record ends in one of the four states; no
\* step counts a record both as skipped and as processed; a record that is
\* missing from the working tree is counted as skipped and as an error; a
\* record that is indexed is counted as processed, and as an error once for
\* each batch that the store refuses.
TalliesOfRecord ==
    [][StepsRecord =>
         LET t == Tallied
         IN  /\ Outcome.state \in {"Skipped", "Deleted", "Reindexed", "Failed"}
             /\ t.skipped + t.processed <= 1
             /\ t.errors = Len(NewFailures)
             /\ (Current[1] # <<"D">> /\ ~IsDir(Current[2]) /\ ~Exists(Current[2])) =>
                   t.skipped = 1 /\ t.errors = 1 /\ Outcome.state = "Failed"
             /\ Outcome.state = "Reindexed" => t.processed = 1
             /\ Outcome.state = "Deleted" => t = [skipped |-> 0, deleted |-> 1, processed |-> 0, errors |-> 0]
             /\ Outcome.state = "Skipped" => t = [skipped |-> 1, deleted |-> 0, processed |-> 0, errors |-> 0]]_vars

(***************************************************************************)
(* Records of distinct paths.                                              *)
(***************************************************************************)
\* the iteration for record k of the run, on a store and a journal, with
\* the answers e of the environment
Step(idx, lines, k, e) ==
    LoopBodyOn(idx, lines, files_to_process[k][1], files_to_process[k][2],
               args.repo_name, args.wipe_first, e.del, e.failAt, e.bad, e.up, writable)

\* the next two records of the run, taken in the order (j, k) with the
\* answers ej and ek: the store, the failures and the journal lines they leave
InOrder(j, ej, k, ek) ==
    LET first(r) ==
          LET second(q) == [index |-> q.index,
                            failures |-> Listed(r.failures) \cup Listed(q.failures),
                            journal |-> Listed(q.journal)]
          IN  second(Step(r.index, r.journal, k, ek))
    IN  first(Step(index, journal, j, ej))

\* the loop is about to process two records that name distinct paths
TwoPathsAhead ==
    /\ pc = "loop"
    /\ pos < Len(files_to_process)
    /\ files_to_process[pos][2] # files_to_process[pos + 1][2]

\* C32: two successive records of a run that name distinct paths commute:
\* whatever the store and the embedding service answer to the calls of each,
\* processing them in either order leaves the same store (for every path the
\* same vectors: positions, texts, embeddings), the same set of failures and
\* the same set of journal lines.  Every permutation of a list without a
\* repeated path is a sequence of such exchanges.
C32_DistinctPathsCommute ==
    TwoPathsAhead =>
        \A e1 \in Answers(files_to_process[pos][1], files_to_process[pos][2], args.wipe_first) :
           \A e2 \in Answers(files_to_process[pos + 1][1], files_to_process[pos + 1][2],
                             args.wipe_first) :
              InOrder(pos, e1, pos + 1, e2) = InOrder(pos + 1, e2, pos, e1)

\* C32 witness: the loop is about to process M:a and A:b; with a refused
\* second batch of a and every call of b answered well, either order leaves
\* the first batch of a, the vector of b, and one failure, journalled
C32_Witness ==
    /\ TwoPathsAhead
    /\ writable
    /\ ~args.wipe_first
    /\ files_to_process = << << <<"M">>, PA >>, << <<"A">>, PB >> >>
    /\ disk[PA] = "multi" /\ disk[PB] = "small"
    /\ LET e1 == [Quiet EXCEPT !.up = [b \in 1..MaxBatches |-> IF b = 2 THEN "error" ELSE "ok"]]
           r == InOrder(2, Quiet, 1, e1)
       IN  /\ r = InOrder(1, e1, 2, Quiet)
           /\ Cardinality(VectorsOf(r.index, args.repo_name, PA)) = BATCH_SIZE
           /\ Cardinality(VectorsOf(r.index, args.repo_name, PB)) = 1
           /\ Cardinality(r.failures) = 1
           /\ r.failures \subseteq r.journal

(***************************************************************************)
(* A record whose embedding fails.                                         *)
(***************************************************************************)
\* the step sends a chunk to the embedding service and the answer is refused
EmbeddingFails ==
    /\ StepsRecord
    /\ \E k \in CallsOf(calls', "embed") : Refused(calls'[k][3])

\* C33: the embedding calls of a record all come before its first upsert;
\* and when the embedding of a chunk fails the step issues no upsert and
\* writes no vector, the record ends Failed with one failure, and outside
\* full-wipe mode the path is left with no vector: its pre-delete has been
\* done and nothing replaces what it removed.  In full-wipe mode the store
\* is as it was.
C33_EmbedAllOrNothing ==
    /\ [][StepsRecord =>
            \A e \in CallsOf(calls', "embed"), u \in CallsOf(calls', "upsert") : e < u]_vars
    /\ [][EmbeddingFails =>
            /\ CallsOf(calls', "upsert") = {}
            /\ Ids(index') \subseteq Ids(index)
            /\ upserted_ids' = upserted_ids
            /\ total_upserted' = total_upserted
            /\ Outcome = [state |-> "Failed", errors |-> 1]
            /\ ~args.wipe_first => VectorsOf(index', args.repo_name, Current[2]) = {}
            /\ args.wipe_first => index' = index]_vars

\* C33 witness: a had been indexed; in a later processing of M:a the last of
\* its eleven chunks was refused by the embedding service after ten were
\* embedded; no upsert was issued and the store holds no vector of a
C33_Witness ==
    /\ JustProcessed
    /\ ~args.wipe_first
    /\ Previous = << <<"M">>, PA >>
    /\ disk[PA] = "multi"
    /\ uuid[PA] >= NChunks("multi")
    /\ states[pos - 1] = [state |-> "Failed", errors |-> 1]
    /\ Cardinality(CallsOf(calls, "embed")) = NChunks("multi")
    /\ CallsOf(calls, "upsert") = {}
    /\ VectorsOf(index, RunRepo, PA) = {}

(***************************************************************************)
(* The batches of a file.                                                  *)
(***************************************************************************)
\* the step embeds the chunks of a file and goes through its batches
UpsertsBatches == StepsRecord /\ Outcome.state = "Reindexed"

\* the ids drawn for the chunks of batch b of the record's file
BatchIds(b) ==
    LET n == Len(dispatch_chunking(disk[Current[2]]).chunks)
    IN  {<<Current[2], uuid[Current[2]] + i>> :
           i \in {c \in 1..n : (b - 1) * BATCH_SIZE < c /\ c <= b * BATCH_SIZE}}

\* the batches of the record's file
BatchesOfFile == 1..NBatches(Len(dispatch_chunking(disk[Current[2]]).chunks))

\* what a step does with the batches of a file, the journal apart: every
\* batch is attempted, whether or not an earlier one failed; a batch is
\* written whole, its ids listed, or not at all; each batch that fails adds
\* one failure with operation 'upsert', the record's path and status, and one
\* to the error count; and a run with such a failure ends with SystemExit(1)
EveryBatchAttempted ==
    /\ [][UpsertsBatches =>
            LET failed == {b \in BatchesOfFile : BatchIds(b) \cap NewIds = {}}
            IN  /\ Cardinality(CallsOf(calls', "upsert"))
                     = Cardinality(BatchesOfFile \ UnembeddedBatches(Current[2]))
                /\ \A b \in BatchesOfFile \ failed :
                      BatchIds(b) \subseteq NewIds /\ BatchIds(b) \subseteq Ids(index')
                /\ \A b \in failed : BatchIds(b) \cap Ids(index') = {}
                /\ Len(NewFailures) = Cardinality(failed)
                /\ file_stats'.errors = file_stats.errors + Cardinality(failed)
                /\ \A k \in 1..Len(NewFailures) :
                      /\ NewFailures[k].operation = "upsert"
                      /\ NewFailures[k].file_path = Current[2]
                      /\ NewFailures[k].status = Current[1]
                /\ Cardinality(CallsOf(calls', "append_error")) = Cardinality(failed)]_vars
    /\ [][(pc = "loop" /\ pc' = "idle"
           /\ \E k \in 1..Len(failures) : failures[k].operation = "upsert")
             => exit' = "SystemExit(1)"]_vars

\* C34, as the specification states it: when a batch of a file fails the
\* other batches of the file are still attempted, each failed batch appends
\* one ErrorRecord with operation 'upsert' to the journal and adds one to the
\* error count, only the ids of the batches that succeeded are listed, and
\* the run exits non-zero.
C34_BatchFailureJournalled ==
    /\ EveryBatchAttempted
    /\ [][UpsertsBatches => journal' = journal \o NewFailures]_vars

\* C34, amended: when a batch of a file fails the other batches of the file
\* are still attempted, each failed batch adds one failure with operation
\* 'upsert' to the failure list and one to the error count, only the ids of
\* the batches that succeeded are listed, and the run exits non-zero; one
\* ErrorRecord for each failed batch is appended to the journal if the errors
\* file can be written, and none if it cannot.
C34_BatchFailureRecorded ==
    /\ EveryBatchAttempted
    /\ [][UpsertsBatches =>
            journal' = IF writable THEN journal \o NewFailures ELSE journal]_vars

\* C34 witness: the first batch of the eleven chunks of a was refused by the
\* store and the second was written: one vector of a, one id listed, one
\* failure with operation 'upsert', journalled
C34_Witness ==
    /\ JustProcessed
    /\ Previous[2] = PA
    /\ disk[PA] = "multi"
    /\ states[pos - 1] = [state |-> "Reindexed", errors |-> 1]
    /\ Cardinality(CallsOf(calls, "upsert")) = 2
    /\ calls[Len(calls)][1] = "upsert"
    /\ Cardinality(VectorsOf(index, RunRepo, PA)) = 1
    /\ Len(upserted_ids) = 1
    /\ failures = << ErrorRecord(PA, "upsert", "upsert", Previous[1]) >>
    /\ journal # << >>
    /\ journal[Len(journal)] = failures[1]

(***************************************************************************)
(* What a record leaves alone.                                             *)
(***************************************************************************)
\* the vectors that are not of path fp under the repo tag
Others(idx, repo, fp) == {v \in idx : v.repo_name # repo \/ v.file_path # fp}

\* C35: outside full-wipe mode the step that processes a record of path p
\* under repo tag r removes and writes only vectors of (r, p): the vectors of
\* every other path, and those of p under another repo tag, are after the
\* step what they were before it, whether the record ends Skipped, Deleted,
\* Reindexed or Failed; and every vector that the step writes carries r and p.
C35_Frame ==
    [][(StepsRecord /\ ~args.wipe_first) =>
         /\ Others(index', args.repo_name, Current[2]) = Others(index, args.repo_name, Current[2])
         /\ \A v \in index' \ index :
               v.repo_name = args.repo_name /\ v.file_path = Current[2]]_vars

\* C35 witness: after b was indexed, M:a was processed outside full-wipe
\* mode and replaced the vectors of a; the vectors of b are those its
\* indexing wrote, and the vector of a under the other repo tag is there
C35_Witness ==
    /\ JustProcessed
    /\ ~args.wipe_first
    /\ Previous = << <<"M">>, PA >>
    /\ states[pos - 1] = [state |-> "Reindexed", errors |-> 0]
    /\ VectorsOf(index, RunRepo, PA) # {}
    /\ last_indexing[PB].ok
    /\ VectorsOf(index, RunRepo, PB) # {}
    /\ Ids(VectorsOf(index, RunRepo, PB)) = DrawnBy(PB)
    /\ Foreign \in index
    /\ Foreign.file_path = PA /\ Foreign.repo_name # RunRepo

=============================================================================
